---- MODULE Spec2Model ----
(***************************************************************************)
(* Model of the resume_screener ATS scoring engine:                        *)
(*   agents/ats_scorer.py        ATSScoringAgent                            *)
(*   agents/candidate_ranker.py  CandidateRankingAgent                      *)
(*   agents/ai_detector.py       AIDetectionAgent                           *)
(*   agents/resume_processor.py  ResumeProcessorAgent                       *)
(*   services/ats_scoring_service.py  ATSScoringService                     *)
(*   utils/json_handler.py       JsonHandler                                *)
(*                                                                         *)
(* Conventions.                                                            *)
(*  - A Python str is a sequence of one-character strings.                 *)
(*  - A Python dict is a TLA+ function whose DOMAIN is the set of keys     *)
(*    present; d.get(k, default) is Get(d, k, default).                    *)
(*  - A field whose Python type matters (duration, summary, experience,    *)
(*    workExperience, years_of_experience) holds a tagged value [t, v].    *)
(*  - A Python float is an exact rational <<n, d>> in lowest terms, d > 0. *)
(***************************************************************************)
EXTENDS Integers, Sequences, FiniteSets, TLC

(***************************************************************************)
(* Python values                                                           *)
(***************************************************************************)
Get(d, k, default) == IF k \in DOMAIN d THEN d[k] ELSE default

PyStr(s) == [t |-> "str", v |-> s]
PyNone == [t |-> "none", v |-> <<>>]
PyInt(n) == [t |-> "int", v |-> n]
PyList(l) == [t |-> "list", v |-> l]

IsStr(x) == x.t = "str"
IsList(x) == x.t = "list"
EmptyList == PyList(<<>>)

\* bool(x) of a tagged value
Truthy(x) ==
    CASE x.t = "str" -> x.v # <<>>
      [] x.t = "none" -> FALSE
      [] x.t = "int" -> x.v # 0
      [] x.t = "list" -> x.v # <<>>

SeqToSet(s) == {s[i] : i \in 1..Len(s)}

(***************************************************************************)
(* str operations                                                          *)
(***************************************************************************)
UpperChars == <<"A","B","C","D","E","F","G","H","I","J","K","L","M",
                "N","O","P","Q","R","S","T","U","V","W","X","Y","Z">>
LowerChars == <<"a","b","c","d","e","f","g","h","i","j","k","l","m",
                "n","o","p","q","r","s","t","u","v","w","x","y","z">>
DigitChars == <<"0","1","2","3","4","5","6","7","8","9">>

\* the lower-case letter of each upper-case letter
LowerOf == [u \in SeqToSet(UpperChars) |->
               LowerChars[CHOOSE i \in 1..Len(UpperChars) : UpperChars[i] = u]]

LowerChar(c) == IF c \in DOMAIN LowerOf THEN LowerOf[c] ELSE c

\* the characters lo..hi of s in lower case, built by halves
RECURSIVE LowerFrom(_, _, _)
LowerFrom(s, lo, hi) ==
    IF lo > hi THEN <<>>
    ELSE IF lo = hi THEN <<LowerChar(s[lo])>>
    ELSE LET mid == (lo + hi) \div 2
         IN LowerFrom(s, lo, mid) \o LowerFrom(s, mid + 1, hi)

\* str.lower()
Lower(s) == LowerFrom(s, 1, Len(s))

\* the value of each decimal digit
DigitOf == [c \in SeqToSet(DigitChars) |->
               (CHOOSE i \in 1..Len(DigitChars) : DigitChars[i] = c) - 1]

IsDigit(c) == c \in DOMAIN DigitOf
DigitVal(c) == DigitOf[c]
IsSpace(c) == c \in {" ", "\t", "\n"}

\* s[i:] starts with w   (i is a 1-based position)
StartsWithAt(s, i, w) ==
    /\ i >= 1
    /\ i + Len(w) - 1 <= Len(s)
    /\ \A k \in 1..Len(w) : s[i + k - 1] = w[k]

\* Python "needle in hay" for two str
Contains(hay, needle) == \E i \in 1..(Len(hay) + 1) : StartsWithAt(hay, i, needle)

\* str.find(): the first 1-based position of needle in hay, 0 when absent
RECURSIVE FindFrom(_, _, _)
FindFrom(hay, needle, i) ==
    IF i > Len(hay) + 1 THEN 0
    ELSE IF StartsWithAt(hay, i, needle) THEN i
    ELSE FindFrom(hay, needle, i + 1)

Find(hay, needle) == FindFrom(hay, needle, 1)

\* a + b for two str
Concat(a, b) == a \o b

RECURSIVE JoinFrom(_, _, _)
JoinFrom(sep, l, i) ==
    IF i > Len(l) THEN <<>>
    ELSE IF i = Len(l) THEN l[i]
    ELSE l[i] \o sep \o JoinFrom(sep, l, i + 1)

\* sep.join(l)
Join(sep, l) == JoinFrom(sep, l, 1)

\* first position >= i that is not whitespace (regex \s*)
RECURSIVE SkipSpace(_, _)
SkipSpace(s, i) ==
    IF i <= Len(s) /\ IsSpace(s[i]) THEN SkipSpace(s, i + 1) ELSE i

\* first position >= i that is not a digit (regex \d*)
RECURSIVE SkipDigits(_, _)
SkipDigits(s, i) ==
    IF i <= Len(s) /\ IsDigit(s[i]) THEN SkipDigits(s, i + 1) ELSE i

\* first position >= i that is whitespace, or Len(s)+1
RECURSIVE SkipWord(_, _)
SkipWord(s, i) ==
    IF i <= Len(s) /\ ~IsSpace(s[i]) THEN SkipWord(s, i + 1) ELSE i

\* s[i:j] with 1-based i and exclusive j
Slice(s, i, j) == SubSeq(s, i, j - 1)

\* set(str.split()): the set of whitespace-separated words
RECURSIVE SplitFrom(_, _)
SplitFrom(s, i) ==
    LET a == SkipSpace(s, i)
        b == SkipWord(s, a)
    IN IF a > Len(s) THEN {} ELSE {Slice(s, a, b)} \cup SplitFrom(s, b)

SplitWords(s) == SplitFrom(s, 1)

(***************************************************************************)
(* float as exact rational                                                 *)
(***************************************************************************)
Abs(n) == IF n < 0 THEN -n ELSE n

RECURSIVE GCD(_, _)
GCD(a, b) == IF b = 0 THEN a ELSE GCD(b, a % b)

\* n/d in lowest terms with positive denominator
Rat(n, d) ==
    LET g == GCD(Abs(n), Abs(d))
        sgn == IF d < 0 THEN -1 ELSE 1
    IN <<sgn * (n \div g), sgn * (d \div g)>>

RInt(n) == <<n, 1>>
RAdd(a, b) == Rat(a[1] * b[2] + b[1] * a[2], a[2] * b[2])
RSub(a, b) == Rat(a[1] * b[2] - b[1] * a[2], a[2] * b[2])
RMul(a, b) == Rat(a[1] * b[1], a[2] * b[2])
RDiv(a, b) == Rat(a[1] * b[2], a[2] * b[1])
RLe(a, b) == a[1] * b[2] <= b[1] * a[2]
RLt(a, b) == a[1] * b[2] < b[1] * a[2]
RMin(a, b) == IF RLt(b, a) THEN b ELSE a
RMax(a, b) == IF RLt(a, b) THEN b ELSE a

Zero == RInt(0)
Hundred == RInt(100)
InRange0To100(x) == RLe(Zero, x) /\ RLe(x, Hundred)

RECURSIVE Pow10(_)
Pow10(k) == IF k = 0 THEN 1 ELSE 10 * Pow10(k - 1)

\* int() of a str of digits
RECURSIVE DigitsValue(_, _)
DigitsValue(s, n) ==
    IF n = 0 THEN 0 ELSE 10 * DigitsValue(s, n - 1) + DigitVal(s[n])

ParseInt(s) == DigitsValue(s, Len(s))

\* float() of a str matched by \d+\.?\d*
ParseFloat(s) ==
    LET dot == Find(s, <<".">>)
    IN IF dot = 0 THEN RInt(ParseInt(s))
       ELSE LET ip == Slice(s, 1, dot)
                fp == Slice(s, dot + 1, Len(s) + 1)
            IN Rat(ParseInt(ip) * Pow10(Len(fp)) + ParseInt(fp), Pow10(Len(fp)))

(***************************************************************************)
(* the regular expressions of ats_scorer.py                                *)
(***************************************************************************)
\* end (exclusive) of the greedy match of \d+\.?\d* at i; requires IsDigit(s[i])
NumberEnd(s, i) ==
    LET j == SkipDigits(s, i)
    IN IF j <= Len(s) /\ s[j] = "." THEN SkipDigits(s, j + 1) ELSE j

\* end (exclusive) of (?:-|to) at k, or 0 when neither alternative matches
SepEnd(s, k) ==
    IF StartsWithAt(s, k, <<"-">>) THEN k + 1
    ELSE IF StartsWithAt(s, k, <<"t", "o">>) THEN k + 2
    ELSE 0

\* (\d+\.?\d*)\s*(?:-|to)\s*(\d+\.?\d*) matches s starting exactly at i
RangeMatchesAt(s, i) ==
    /\ i <= Len(s)
    /\ IsDigit(s[i])
    /\ LET k == SkipSpace(s, NumberEnd(s, i))
           e == SepEnd(s, k)
       IN /\ e # 0
          /\ LET m == SkipSpace(s, e)
             IN m <= Len(s) /\ IsDigit(s[m])

\* re.search: the leftmost position >= i where the range pattern matches, 0 when none
RECURSIVE FirstRangeFrom(_, _)
FirstRangeFrom(s, i) ==
    IF i > Len(s) THEN 0
    ELSE IF RangeMatchesAt(s, i) THEN i
    ELSE FirstRangeFrom(s, i + 1)

\* re.search(r'(\d+\.?\d*)', s): the leftmost digit at or after i, 0 when none
RECURSIVE FirstDigitFrom(_, _)
FirstDigitFrom(s, i) ==
    IF i > Len(s) THEN 0
    ELSE IF IsDigit(s[i]) THEN i
    ELSE FirstDigitFrom(s, i + 1)

\* (\d+\.?\d*)\s*<word> matches s starting exactly at i
NumWordMatchesAt(s, i, word) ==
    /\ i <= Len(s)
    /\ IsDigit(s[i])
    /\ StartsWithAt(s, SkipSpace(s, NumberEnd(s, i)), word)

RECURSIVE FirstNumWordFrom(_, _, _)
FirstNumWordFrom(s, word, i) ==
    IF i > Len(s) THEN 0
    ELSE IF NumWordMatchesAt(s, i, word) THEN i
    ELSE FirstNumWordFrom(s, word, i + 1)

\* (\d{4}) matches s starting exactly at i
Year4MatchesAt(s, i) ==
    /\ i + 3 <= Len(s)
    /\ \A k \in 0..3 : IsDigit(s[i + k])

RECURSIVE FirstYear4From(_, _)
FirstYear4From(s, i) ==
    IF i > Len(s) THEN 0
    ELSE IF Year4MatchesAt(s, i) THEN i
    ELSE FirstYear4From(s, i + 1)

(***************************************************************************)
(* ATSScoringAgent: the leaf scorers                                       *)
(***************************************************************************)
\* variant: the skills are compared as written, upper case kept
LowerSet_asWritten(skills) == {skills[i] : i \in 1..Len(skills)}

\* set(skill.lower() for skill in skills)
LowerSet(skills) == {Lower(skills[i]) : i \in 1..Len(skills)}

\* variant: only a required skill inside a candidate skill gets partial credit
PartialSkill_oneWay(req_skill, candidate_skills) ==
    \E cand_skill \in candidate_skills : Contains(cand_skill, req_skill)

\* the partial-match test of _calculate_skill_match's inner loop
PartialSkill(req_skill, candidate_skills) ==
    \E cand_skill \in candidate_skills :
        Contains(cand_skill, req_skill) \/ Contains(req_skill, cand_skill)

\* matches, counted in halves
SkillCredits2(required_skills, candidate_skills) ==
    2 * Cardinality({r \in required_skills : r \in candidate_skills})
    + Cardinality({r \in required_skills :
                      r \notin candidate_skills /\ PartialSkill(r, candidate_skills)})

_calculate_skill_match(required_skills, candidate_skills) ==
    IF required_skills = {} THEN Hundred
    ELSE RMin(RMul(Rat(SkillCredits2(required_skills, candidate_skills),
                       2 * Cardinality(required_skills)),
                   Hundred),
              Hundred)

\* variant: the first number of the text is taken, whatever word follows it
NumBeforeWord_first(text, word) ==
    LET i == FirstDigitFrom(text, 1)
    IN IF i = 0 THEN Zero ELSE ParseFloat(Slice(text, i, NumberEnd(text, i)))

\* group 1 of re.search(r'(\d+\.?\d*)\s*<word>', text), as a float; 0 on no match
NumBeforeWord(text, word) ==
    LET i == FirstNumWordFrom(text, word, 1)
    IN IF i = 0 THEN Zero ELSE ParseFloat(Slice(text, i, NumberEnd(text, i)))

\* int(group 1) of re.search(r'(\d{4})', text); requires a match
Year4(text) ==
    LET i == FirstYear4From(text, 1)
    IN ParseInt(Slice(text, i, i + 4))

HasYear4(text) == FirstYear4From(text, 1) # 0

MonthNames == <<<<"j","a","n">>, <<"f","e","b">>, <<"m","a","r">>, <<"a","p","r">>,
                <<"m","a","y">>, <<"j","u","n">>, <<"j","u","l">>, <<"a","u","g">>,
                <<"s","e","p">>, <<"o","c","t">>, <<"n","o","v">>, <<"d","e","c">>>>

MonthMatchesAt(text, p) == \E m \in 1..12 : StartsWithAt(text, p, MonthNames[m])

DefaultMonth == 6

RECURSIVE FirstMonthFrom(_, _)
FirstMonthFrom(text, i) ==
    IF i > Len(text) THEN 0
    ELSE IF MonthMatchesAt(text, i) THEN i
    ELSE FirstMonthFrom(text, i + 1)

\* variant: a date without a month name counts from January
MonthOf_january(text) ==
    LET i == FirstMonthFrom(text, 1)
    IN IF i = 0 THEN 1
       ELSE CHOOSE m \in 1..12 : StartsWithAt(text, i, MonthNames[m])

\* the month table applied to re.search(r'(jan|feb|...|dec)', text), default 6
MonthOf(text) ==
    LET i == FirstMonthFrom(text, 1)
    IN IF i = 0 THEN DefaultMonth
       ELSE CHOOSE m \in 1..12 : StartsWithAt(text, i, MonthNames[m])

PRESENT == <<"p","r","e","s","e","n","t">>
CURRENT == <<"c","u","r","r","e","n","t">>
YEAR == <<"y","e","a","r">>
MONTH == <<"m","o","n","t","h">>

\* the duration branch is taken: "duration" in exp and exp["duration"]
HasDuration(exp) == "duration" \in DOMAIN exp /\ Truthy(exp["duration"])

\* exp["duration"].lower() raises AttributeError on a value that is not a str
EntryRaises(exp) == HasDuration(exp) /\ ~IsStr(exp["duration"])

\* variant: the "experience_years > 0" test is left out
EntryYears_signed(exp, now) ==
    IF HasDuration(exp)
    THEN LET duration_text == Lower(exp["duration"].v)
         IN RAdd(NumBeforeWord(duration_text, YEAR),
                 RDiv(NumBeforeWord(duration_text, MONTH), RInt(12)))
    ELSE LET start_date == Get(exp, "start_date", <<>>)
             end_date == Get(exp, "end_date", <<>>)
             ongoing == \/ end_date = <<>>
                        \/ Contains(Lower(end_date), PRESENT)
                        \/ Contains(Lower(end_date), CURRENT)
         IN IF start_date = <<>> THEN Zero
            ELSE IF ~HasYear4(start_date) THEN Zero
            ELSE IF ~ongoing /\ ~HasYear4(end_date) THEN Zero
            ELSE LET start_year == Year4(start_date)
                     end_year == IF ongoing THEN now[1] ELSE Year4(end_date)
                     end_month == IF ongoing THEN now[2] ELSE MonthOf(Lower(end_date))
                     start_month == MonthOf(Lower(start_date))
                 IN RAdd(RInt(end_year - start_year), Rat(end_month - start_month, 12))

\* the amount one loop iteration adds to total_years; now = <<year, month>>
EntryYears(exp, now) ==
    IF HasDuration(exp)
    THEN LET duration_text == Lower(exp["duration"].v)
         IN RAdd(NumBeforeWord(duration_text, YEAR),
                 RDiv(NumBeforeWord(duration_text, MONTH), RInt(12)))
    ELSE LET start_date == Get(exp, "start_date", <<>>)
             end_date == Get(exp, "end_date", <<>>)
             ongoing == \/ end_date = <<>>
                        \/ Contains(Lower(end_date), PRESENT)
                        \/ Contains(Lower(end_date), CURRENT)
         IN IF start_date = <<>> THEN Zero
            ELSE IF ~HasYear4(start_date) THEN Zero
            ELSE IF ~ongoing /\ ~HasYear4(end_date) THEN Zero
            ELSE LET start_year == Year4(start_date)
                     end_year == IF ongoing THEN now[1] ELSE Year4(end_date)
                     end_month == IF ongoing THEN now[2] ELSE MonthOf(Lower(end_date))
                     start_month == MonthOf(Lower(start_date))
                     experience_years ==
                         RAdd(RInt(end_year - start_year),
                              Rat(end_month - start_month, 12))
                 IN IF RLt(Zero, experience_years) THEN experience_years ELSE Zero

\* "for exp in experience" raises TypeError on a value that is not a list
_calculate_total_experience_years_raises(experience) ==
    \/ ~IsList(experience)
    \/ \E i \in 1..Len(experience.v) : EntryRaises(experience.v[i])

RECURSIVE TotalYearsFrom(_, _, _)
TotalYearsFrom(experience, now, i) ==
    IF i > Len(experience) THEN Zero
    ELSE RAdd(EntryYears(experience[i], now), TotalYearsFrom(experience, now, i + 1))

_calculate_total_experience_years(experience, now) == TotalYearsFrom(experience.v, now, 1)

NOT_SPECIFIED == <<"N","o","t"," ","s","p","e","c","i","f","i","e","d">>

DefaultRequiredYears == 2

\* required_years before the default is applied: 0.0 unless req_exp_str is a
\* str holding a range or a number
ParsedYears(req_exp_str) ==
    IF ~IsStr(req_exp_str) THEN Zero
    ELSE LET s == req_exp_str.v
             i == FirstRangeFrom(s, 1)
         IN IF i # 0
            THEN LET j == NumberEnd(s, i)
                     m == SkipSpace(s, SepEnd(s, SkipSpace(s, j)))
                     min_years == ParseFloat(Slice(s, i, j))
                     max_years == ParseFloat(Slice(s, m, NumberEnd(s, m)))
                 IN RDiv(RAdd(min_years, max_years), RInt(2))
            ELSE LET k == FirstDigitFrom(s, 1)
                 IN IF k # 0 THEN ParseFloat(Slice(s, k, NumberEnd(s, k)))
                    ELSE Zero

\* required_years of _calculate_experience_match
RequiredYears(job_requirements) ==
    LET req_exp_str == Get(job_requirements, "years_of_experience", PyStr(NOT_SPECIFIED))
        parsed == ParsedYears(req_exp_str)
    IN IF RLe(parsed, Zero) THEN RInt(DefaultRequiredYears) ELSE parsed

_calculate_experience_match_raises(job_requirements, resume_data) ==
    _calculate_total_experience_years_raises(Get(resume_data, "experience", EmptyList))

\* variant: the "candidate_years >= required_years" branch is missing
_calculate_experience_match_uncapped(job_requirements, resume_data, now) ==
    LET required_years == RequiredYears(job_requirements)
        candidate_years ==
            _calculate_total_experience_years(Get(resume_data, "experience", EmptyList), now)
    IN IF RLe(candidate_years, Zero) THEN Zero
       ELSE RMul(RDiv(candidate_years, required_years), Hundred)

_calculate_experience_match(job_requirements, resume_data, now) ==
    LET required_years == RequiredYears(job_requirements)
        candidate_years ==
            _calculate_total_experience_years(Get(resume_data, "experience", EmptyList), now)
    IN IF RLe(required_years, candidate_years) THEN Hundred
       ELSE IF RLe(candidate_years, Zero) THEN Zero
       ELSE RMul(RDiv(candidate_years, required_years), Hundred)

\* education_levels of _calculate_education_match: <<keyword, level>>
education_levels ==
    { << <<"h","i","g","h"," ","s","c","h","o","o","l">>, 1 >>,
      << <<"a","s","s","o","c","i","a","t","e">>, 2 >>,
      << <<"d","i","p","l","o","m","a">>, 2 >>,
      << <<"b","a","c","h","e","l","o","r">>, 3 >>,
      << <<"b","s">>, 3 >>,
      << <<"b","a">>, 3 >>,
      << <<"u","n","d","e","r","g","r","a","d","u","a","t","e">>, 3 >>,
      << <<"m","a","s","t","e","r">>, 4 >>,
      << <<"m","b","a">>, 4 >>,
      << <<"g","r","a","d","u","a","t","e">>, 4 >>,
      << <<"p","h","d">>, 5 >>,
      << <<"d","o","c","t","o","r","a","t","e">>, 5 >> }

SetMax(S, default) == IF S = {} THEN default ELSE CHOOSE x \in S : \A y \in S : y <= x

\* the highest level whose keyword occurs in the (lower-cased) text, 0 when none
LevelOf(text) == SetMax({e[2] : e \in {x \in education_levels : Contains(text, x[1])}}, 0)

DefaultRequiredLevel == 3

\* variant: only the first education entry is looked at
_calculate_education_match_firstDegree(job_requirements, resume_data) ==
    LET education_req == Lower(Get(job_requirements, "education_requirements", <<>>))
        candidate_education == Get(resume_data, "education", <<>>)
        found_level == LevelOf(education_req)
        required_level == IF found_level = 0 THEN DefaultRequiredLevel ELSE found_level
        candidate_level ==
            IF candidate_education = <<>> THEN 0
            ELSE LevelOf(Lower(Get(candidate_education[1], "degree", <<>>)))
    IN IF candidate_level >= required_level THEN Hundred
       ELSE IF candidate_level = 0 THEN Zero
       ELSE RMul(Rat(candidate_level, required_level), Hundred)

_calculate_education_match(job_requirements, resume_data) ==
    LET education_req == Lower(Get(job_requirements, "education_requirements", <<>>))
        candidate_education == Get(resume_data, "education", <<>>)
        found_level == LevelOf(education_req)
        required_level == IF found_level = 0 THEN DefaultRequiredLevel ELSE found_level
        candidate_level ==
            SetMax({LevelOf(Lower(Get(candidate_education[i], "degree", <<>>))) :
                        i \in 1..Len(candidate_education)}, 0)
    IN IF candidate_level >= required_level THEN Hundred
       ELSE IF candidate_level = 0 THEN Zero
       ELSE RMul(Rat(candidate_level, required_level), Hundred)

common_words ==
    { <<"a","n","d">>, <<"t","h","e">>, <<"t","o">>, <<"o","f">>, <<"f","o","r">>,
      <<"i","n">>, <<"a">>, <<"w","i","t","h">>, <<"o","n">>, <<"a","n">>,
      <<"t","h","i","s">>, <<"t","h","a","t">>, <<"b","e">>, <<"a","s">> }

\* variant: keywords of one or two characters are kept
Keywords_anyLength(job_requirements) ==
    LET all == LowerSet(Get(job_requirements, "required_skills", <<>>))
               \cup LowerSet(Get(job_requirements, "preferred_skills", <<>>))
               \cup LowerSet(Get(job_requirements, "critical_keywords", <<>>))
    IN {k \in all : k \notin common_words}

\* the filtered keyword set of _calculate_keyword_density
Keywords(job_requirements) ==
    LET all == LowerSet(Get(job_requirements, "required_skills", <<>>))
               \cup LowerSet(Get(job_requirements, "preferred_skills", <<>>))
               \cup LowerSet(Get(job_requirements, "critical_keywords", <<>>))
    IN {k \in all : k \notin common_words /\ Len(k) > 2}

SPACE == <<" ">>

RECURSIVE ExperienceText(_, _)
ExperienceText(experience, i) ==
    IF i > Len(experience) THEN <<>>
    ELSE SPACE \o Get(experience[i], "title", <<>>)
         \o SPACE \o Get(experience[i], "company", <<>>)
         \o SPACE \o Get(experience[i], "description", <<>>)
         \o ExperienceText(experience, i + 1)

\* " " + resume_data.get("summary", "") raises TypeError unless the value is a
\* str, and so does the loop over an experience value that is not a list; both
\* statements are reached only when the keyword set is not empty
_calculate_keyword_density_raises(job_requirements, resume_data) ==
    /\ Keywords(job_requirements) # {}
    /\ \/ ~IsStr(Get(resume_data, "summary", PyStr(<<>>)))
       \/ ~IsList(Get(resume_data, "experience", EmptyList))

_calculate_keyword_density(job_requirements, resume_data) ==
    LET keywords == Keywords(job_requirements)
        resume_text ==
            Lower(Join(SPACE, Get(resume_data, "skills", <<>>))
                  \o SPACE \o Get(resume_data, "summary", PyStr(<<>>)).v
                  \o ExperienceText(Get(resume_data, "experience", EmptyList).v, 1))
        matches == Cardinality({k \in keywords : Contains(resume_text, k)})
    IN IF keywords = {} THEN Hundred
       ELSE RMul(Rat(matches, Cardinality(keywords)), Hundred)

Fifty == RInt(50)
RecentJobs == 3

\* variant: the shared words are divided by the job title's words alone
TitleSimilarity_overlap(job_title_words, exp) ==
    LET candidate_title_words == SplitWords(Lower(Get(exp, "title", <<>>)))
        intersection == job_title_words \cap candidate_title_words
        union == job_title_words \cup candidate_title_words
    IN IF union = {} THEN Zero
       ELSE RMul(Rat(Cardinality(intersection), Cardinality(job_title_words)), Hundred)

\* Jaccard similarity of the job title's words with one entry's title words
TitleSimilarity(job_title_words, exp) ==
    LET candidate_title_words == SplitWords(Lower(Get(exp, "title", <<>>)))
        intersection == job_title_words \cap candidate_title_words
        union == job_title_words \cup candidate_title_words
    IN IF union = {} THEN Zero
       ELSE RMul(Rat(Cardinality(intersection), Cardinality(union)), Hundred)

RECURSIVE BestTitleMatch(_, _, _)
BestTitleMatch(job_title_words, experience, i) ==
    IF i > Len(experience) \/ i > RecentJobs THEN Zero
    ELSE RMax(TitleSimilarity(job_title_words, experience[i]),
              BestTitleMatch(job_title_words, experience, i + 1))

_calculate_title_match(job_title, experience) ==
    IF job_title = <<>> \/ ~Truthy(experience) THEN Fifty
    ELSE BestTitleMatch(SplitWords(Lower(job_title)), experience.v, 1)

(***************************************************************************)
(* The narrative LLM call                                                  *)
(***************************************************************************)
\* what the chat-completion request can do
Replies == {"json_object", "json_nonobject", "json_falsy", "plain_text",
            "http_error", "null_content"}

\* _analyze_text: the content of the reply; any exception of the request
\* becomes the text "Error: ..."
_analyze_text(reply) == IF reply = "http_error" THEN "error_text" ELSE reply

\* JsonHandler.extract_json: raises |-> TRUE when json.loads raises something
\* other than JSONDecodeError (content None: TypeError); value is the kind of
\* the Python value returned
extract_json(text) ==
    CASE text = "json_object" -> [raises |-> FALSE, value |-> "dict"]
      [] text = "json_nonobject" -> [raises |-> FALSE, value |-> "nondict"]
      [] text = "json_falsy" -> [raises |-> FALSE, value |-> "falsy"]
      [] text = "null_content" -> [raises |-> TRUE, value |-> "None"]
      [] OTHER -> [raises |-> FALSE, value |-> "None"]

\* the value returned by _get_comprehensive_analysis: is_dict tells whether it
\* has a .get method; the three entries are kinds of narrative text
_get_comprehensive_analysis(reply) ==
    LET json_data == extract_json(_analyze_text(reply))
    IN IF json_data.raises
       THEN [is_dict |-> TRUE, analysis |-> "error", strengths |-> "empty",
             improvement_areas |-> "empty"]
       ELSE IF json_data.value \in {"dict", "nondict"}
       THEN [is_dict |-> json_data.value = "dict", analysis |-> "llm",
             strengths |-> "llm", improvement_areas |-> "llm"]
       ELSE [is_dict |-> TRUE, analysis |-> "generated", strengths |-> "canned",
             improvement_areas |-> "canned"]

(***************************************************************************)
(* ATSScoringAgent.score_resume                                            *)
(***************************************************************************)
\* the experience list of score_resume (lines 57-60)
ExperienceOf(resume_data) ==
    LET experience == Get(resume_data, "experience", EmptyList)
    IN IF ~Truthy(experience) /\ "workExperience" \in DOMAIN resume_data
       THEN resume_data["workExperience"]
       ELSE experience

\* variant: required and preferred skills weigh the same
WeightedSkillMatch_even(required_match, preferred_match) ==
    RAdd(RMul(required_match, Rat(1, 2)), RMul(preferred_match, Rat(1, 2)))

\* skill_match_score: required skills weigh 0.7, preferred skills 0.3
WeightedSkillMatch(required_match, preferred_match) ==
    RAdd(RMul(required_match, Rat(7, 10)), RMul(preferred_match, Rat(3, 10)))

\* variant: the weights of skill_match and experience_match are exchanged
WeightedAts_swapped(skill, experience, education, keyword, title) ==
    RAdd(RAdd(RAdd(RAdd(RMul(skill, Rat(30, 100)),
                        RMul(experience, Rat(40, 100))),
                   RMul(education, Rat(15, 100))),
              RMul(keyword, Rat(10, 100))),
         RMul(title, Rat(5, 100)))

\* the weighted average of score_resume (lines 84-90)
WeightedAts(skill, experience, education, keyword, title) ==
    RAdd(RAdd(RAdd(RAdd(RMul(skill, Rat(40, 100)),
                        RMul(experience, Rat(30, 100))),
                   RMul(education, Rat(15, 100))),
              RMul(keyword, Rat(10, 100))),
         RMul(title, Rat(5, 100)))

\* variant: the except branch reports a zero overall score
FallbackResult_zero ==
    [error |-> "Failed to score resume",
     ats_score |-> Zero,
     skill_match |-> Fifty,
     experience_match |-> Fifty,
     education_match |-> Fifty,
     keyword_density |-> Fifty,
     title_match |-> Fifty,
     matching_skills |-> {},
     missing_skills |-> {},
     detailed_analysis |-> "Error analyzing resume"]

\* the dict returned by the except branch
FallbackResult ==
    [error |-> "Failed to score resume",
     ats_score |-> Fifty,
     skill_match |-> Fifty,
     experience_match |-> Fifty,
     education_match |-> Fifty,
     keyword_density |-> Fifty,
     title_match |-> Fifty,
     matching_skills |-> {},
     missing_skills |-> {},
     detailed_analysis |-> "Error analyzing resume"]

\* some statement of the try block raises
score_resume_raises(job_requirements, resume_data, reply) ==
    \/ _calculate_experience_match_raises(job_requirements, resume_data)
    \/ _calculate_keyword_density_raises(job_requirements, resume_data)
    \/ ~_get_comprehensive_analysis(reply).is_dict

score_resume(job_requirements, resume_data, reply, now) ==
    IF score_resume_raises(job_requirements, resume_data, reply)
    THEN FallbackResult
    ELSE
    LET job_title == Get(job_requirements, "job_title", <<>>)
        required_skills == LowerSet(Get(job_requirements, "required_skills", <<>>))
        preferred_skills == LowerSet(Get(job_requirements, "preferred_skills", <<>>))
        all_required == required_skills \cup preferred_skills
        candidate_skills == LowerSet(Get(resume_data, "skills", <<>>))
        experience == ExperienceOf(resume_data)
        required_match == _calculate_skill_match(required_skills, candidate_skills)
        preferred_match == _calculate_skill_match(preferred_skills, candidate_skills)
        skill_match_score == WeightedSkillMatch(required_match, preferred_match)
        experience_match_score ==
            _calculate_experience_match(job_requirements, resume_data, now)
        education_match_score == _calculate_education_match(job_requirements, resume_data)
        keyword_score == _calculate_keyword_density(job_requirements, resume_data)
        title_match_score == _calculate_title_match(job_title, experience)
        ats_score == WeightedAts(skill_match_score, experience_match_score,
                                 education_match_score, keyword_score, title_match_score)
        detailed_analysis_result == _get_comprehensive_analysis(reply)
    IN [ats_score |-> RMin(ats_score, Hundred),
        skill_match |-> skill_match_score,
        experience_match |-> experience_match_score,
        education_match |-> education_match_score,
        keyword_density |-> keyword_score,
        title_match |-> title_match_score,
        matching_skills |-> candidate_skills \cap all_required,
        missing_skills |-> all_required \ candidate_skills,
        detailed_analysis |-> detailed_analysis_result.analysis,
        strengths |-> detailed_analysis_result.strengths,
        improvement_areas |-> detailed_analysis_result.improvement_areas]

(***************************************************************************)
(* AIDetectionAgent.analyze_resume                                         *)
(***************************************************************************)
\* _extract_text_from_experience: the descriptions of the first three entries
RECURSIVE Descriptions(_, _)
Descriptions(experience, i) ==
    IF i > Len(experience) \/ i > RecentJobs THEN <<>>
    ELSE (IF "description" \in DOMAIN experience[i] /\ experience[i]["description"] # <<>>
          THEN <<experience[i]["description"]>> ELSE <<>>)
         \o Descriptions(experience, i + 1)

_extract_text_from_experience(experience) == Join(SPACE, Descriptions(experience, 1))

IN_ == <<" ","i","n"," ">>
FROM_ == <<" ","f","r","o","m"," ">>
DOT_ == <<".">>

RECURSIVE EducationSentences(_, _)
EducationSentences(education, i) ==
    IF i > Len(education) THEN <<>>
    ELSE (IF Get(education[i], "degree", <<>>) # <<>>
          THEN << Get(education[i], "degree", <<>>) \o IN_
                  \o Get(education[i], "field", <<>>) \o FROM_
                  \o Get(education[i], "institution", <<>>) \o DOT_ >>
          ELSE <<>>)
         \o EducationSentences(education, i + 1)

_extract_text_from_education(education) == Join(SPACE, EducationSentences(education, 1))

COMMA_ == <<",", " ">>

\* building the sections dict raises: experience[:3] on a value that is not a list
analyze_resume_raises(resume_data) == ~IsList(Get(resume_data, "experience", EmptyList))

\* the texts of the sections dict in insertion order (summary, experience,
\* education, skills), empty ones filtered out; a summary that is not a
\* non-empty str is falsy or, for a non-empty list, has no len >= 50 here
Sections(resume_data) ==
    LET summary == Get(resume_data, "summary", PyStr(<<>>))
        all == << IF IsStr(summary) THEN summary.v ELSE <<>>,
                  _extract_text_from_experience(Get(resume_data, "experience", EmptyList).v),
                  _extract_text_from_education(Get(resume_data, "education", <<>>)),
                  Join(COMMA_, Get(resume_data, "skills", <<>>)) >>
    IN SelectSeq(all, LAMBDA text : text # <<>>)

MinSectionLength == 50

\* the sections long enough to be sent to _detect_ai_content
AnalysedSections(resume_data) ==
    SelectSeq(Sections(resume_data), LAMBDA text : Len(text) >= MinSectionLength)

\* what _detect_ai_content can return as result["score"] for one section:
\* 0.7 when the reply has no usable JSON, otherwise whatever JSON value the
\* reply carries under "score" (numeric shows whether it is a number)
DefaultSectionScore == [numeric |-> TRUE, score |-> Rat(7, 10)]
SectionScores ==
    { DefaultSectionScore,
      [numeric |-> TRUE, score |-> Rat(1, 5)],
      [numeric |-> TRUE, score |-> RInt(1)],
      [numeric |-> TRUE, score |-> RInt(-3)],
      [numeric |-> FALSE, score |-> Zero] }

RECURSIVE SumScores(_, _)
SumScores(scores, i) ==
    IF i > Len(scores) THEN Zero ELSE RAdd(scores[i].score, SumScores(scores, i + 1))

\* the possible per-section score sequences for a resume
ScoreChoices(resume_data) ==
    IF analyze_resume_raises(resume_data) THEN {<<>>}
    ELSE [1..Len(AnalysedSections(resume_data)) -> SectionScores]

\* analyze_resume; scores[k] is the score of the k-th analysed section.
\* "score < 0.7" raises TypeError on a score that is not a number, and every
\* exception ends in the neutral 0.5 result
analyze_resume(resume_data, scores) ==
    IF analyze_resume_raises(resume_data) \/ \E k \in 1..Len(scores) : ~scores[k].numeric
    THEN [error |-> "Failed to analyze for AI-generated content",
          authenticity_score |-> Rat(1, 2),
          analysis |-> "Error occurred during AI content detection."]
    ELSE IF Sections(resume_data) = <<>>
    THEN [authenticity_score |-> Rat(4, 5),
          analysis |-> "Insufficient text to analyze for AI content detection."]
    ELSE [authenticity_score |->
              IF scores = <<>> THEN Rat(4, 5)
              ELSE RDiv(SumScores(scores, 1), RInt(Len(scores))),
          analysis |-> "llm"]

(***************************************************************************)
(* ResumeProcessorAgent.process_resume                                     *)
(***************************************************************************)
\* the replies of the resume-parsing LLM call that lead to different results:
\* a JSON object, text without braces (also an HTTP error, which _analyze_text
\* turns into "Error: ..." text), and a null message content
ProcessReplies == {"json_object", "plain_text", "null_content"}

UnknownContact == [name |-> "Unknown", email |-> "", phone |-> "", location |-> ""]

\* the "ensure all expected keys exist" loop: [] for every missing key but
\* contact_info
FilledKeys ==
    [contact_info |-> UnknownContact,
     skills |-> <<>>,
     experience |-> PyList(<<>>),
     education |-> <<>>,
     certifications |-> <<>>,
     languages |-> <<>>,
     summary |-> PyList(<<>>)]

\* the dict of the except branch
ProcessError ==
    [error |-> "Failed to process resume",
     name |-> "Unknown Candidate",
     contact_info |-> UnknownContact,
     skills |-> <<>>,
     experience |-> PyList(<<>>),
     education |-> <<>>,
     certifications |-> <<>>,
     languages |-> <<>>,
     summary |-> PyStr(<<>>)]

\* process_resume; parsed is the JSON object a json_object reply carries.
\* _extract_json(None) raises on a null content, any other reply without a
\* JSON object gives {}
process_resume(parsed, reply) ==
    IF reply = "null_content" THEN ProcessError
    ELSE LET json_response == IF reply = "json_object" THEN parsed ELSE <<>>
             filled == json_response @@ FilledKeys
         IN [name |-> Get(filled["contact_info"], "name", "Unknown Candidate")] @@ filled

(***************************************************************************)
(* CandidateRankingAgent                                                   *)
(***************************************************************************)
\* round(x, 2) on the exact value: to the nearest hundredth, ties to even
Round2(x) ==
    LET n == 100 * x[1]
        d == x[2]
        q == IF n >= 0 THEN n \div d ELSE -((-n + d - 1) \div d)
        r == n - q * d
        up == \/ 2 * r > d
              \/ (2 * r = d /\ q % 2 = 1)
    IN Rat(IF up THEN q + 1 ELSE q, 100)

\* variant: a candidate without authenticity_score is taken as 0.8
CompositeScore_default08(candidate) ==
    LET ats_score == Get(candidate, "ats_score", Fifty)
        skill_match == Get(candidate, "skill_match", Fifty)
        experience_match == Get(candidate, "experience_match", Fifty)
        education_match == Get(candidate, "education_match", Fifty)
        authenticity_score == Get(candidate, "authenticity_score", Rat(4, 5))
        authenticity_factor == RAdd(Rat(8, 10), RMul(authenticity_score, Rat(4, 10)))
        composite_score ==
            RMul(RAdd(RAdd(RAdd(RMul(ats_score, Rat(5, 10)),
                                RMul(skill_match, Rat(3, 10))),
                           RMul(experience_match, Rat(1, 10))),
                      RMul(education_match, Rat(1, 10))),
                 authenticity_factor)
    IN RMin(Round2(composite_score), Hundred)

\* the value stored in candidate["composite_score"] (lines 56-75)
CompositeScore(candidate) ==
    LET ats_score == Get(candidate, "ats_score", Fifty)
        skill_match == Get(candidate, "skill_match", Fifty)
        experience_match == Get(candidate, "experience_match", Fifty)
        education_match == Get(candidate, "education_match", Fifty)
        authenticity_score == Get(candidate, "authenticity_score", Rat(1, 2))
        authenticity_factor == RAdd(Rat(8, 10), RMul(authenticity_score, Rat(4, 10)))
        composite_score ==
            RMul(RAdd(RAdd(RAdd(RMul(ats_score, Rat(5, 10)),
                                RMul(skill_match, Rat(3, 10))),
                           RMul(experience_match, Rat(1, 10))),
                      RMul(education_match, Rat(1, 10))),
                 authenticity_factor)
    IN RMin(Round2(composite_score), Hundred)

\* variant: the loop also stores the composite value as the ats_score
RECURSIVE WithCompositeScores_overwriting(_)
WithCompositeScores_overwriting(candidates) ==
    IF candidates = <<>> THEN <<>>
    ELSE <<[composite_score |-> CompositeScore(Head(candidates)),
            ats_score |-> CompositeScore(Head(candidates))] @@ Head(candidates)>>
         \o WithCompositeScores_overwriting(Tail(candidates))

\* the for loop of lines 54-75: every dict of the list gets composite_score
RECURSIVE WithCompositeScores(_)
WithCompositeScores(candidates) ==
    IF candidates = <<>> THEN <<>>
    ELSE <<[composite_score |-> CompositeScore(Head(candidates))] @@ Head(candidates)>>
         \o WithCompositeScores(Tail(candidates))

\* variant: a candidate with a greater key takes the place of the one it passes
RECURSIVE InsertDescending_replacing(_, _)
InsertDescending_replacing(ranked, candidate) ==
    IF ranked = <<>> THEN <<candidate>>
    ELSE IF RLt(Head(ranked)["composite_score"], candidate["composite_score"])
    THEN <<candidate>> \o Tail(ranked)
    ELSE <<Head(ranked)>> \o InsertDescending_replacing(Tail(ranked), candidate)

\* candidate goes behind every candidate of ranked whose key is not smaller
RECURSIVE InsertDescending(_, _)
InsertDescending(ranked, candidate) ==
    IF ranked = <<>> THEN <<candidate>>
    ELSE IF RLt(Head(ranked)["composite_score"], candidate["composite_score"])
    THEN <<candidate>> \o ranked
    ELSE <<Head(ranked)>> \o InsertDescending(Tail(ranked), candidate)

\* sorted(candidates, key=composite_score, reverse=True): stable, so equal
\* keys keep the order of the input list
RECURSIVE SortedDescendingFrom(_, _, _)
SortedDescendingFrom(candidates, i, ranked) ==
    IF i > Len(candidates) THEN ranked
    ELSE SortedDescendingFrom(candidates, i + 1, InsertDescending(ranked, candidates[i]))

SortedDescending(candidates) == SortedDescendingFrom(candidates, 1, <<>>)

InsightCandidates == 3

\* the replies of the insights LLM call: text, or the "Error: ..." text that
\* _analyze_text returns for any failure
InsightReplies == {"plain_text", "http_error"}

\* building the prompt (outside the try of _generate_ranking_insights) raises:
\* c.get('experience', [])[:2] on a value that is not a list
_generate_ranking_insights_raises(ranked_candidates) ==
    \E i \in 1..Len(ranked_candidates) :
        /\ i <= InsightCandidates
        /\ ~IsList(Get(ranked_candidates[i], "experience", EmptyList))

_generate_ranking_insights(ranked_candidates, reply) ==
    IF ranked_candidates = <<>> THEN "No candidates available for analysis."
    ELSE IF reply = "plain_text" THEN "llm" ELSE "Error: llm"

\* rank_candidates: the returned dict and, in scored, the caller's list after
\* the call (its dicts are updated in place)
rank_candidates(candidates, reply) ==
    IF candidates = <<>>
    THEN [result |-> [ranked_candidates |-> <<>>, insights |-> "No candidates to rank."],
          scored |-> <<>>]
    ELSE LET scored == WithCompositeScores(candidates)
             ranked_candidates == SortedDescending(scored)
         IN IF _generate_ranking_insights_raises(ranked_candidates)
            THEN [result |-> [error |-> "raised",
                              ranked_candidates |-> scored,
                              insights |-> "Error generating candidate rankings."],
                  scored |-> scored]
            ELSE [result |-> [ranked_candidates |-> ranked_candidates,
                              insights |-> _generate_ranking_insights(ranked_candidates, reply)],
                  scored |-> scored]

\* _get_experience_level raises: iterating a value that is not a list, or
\* duration_str.lower() on a duration that is not a str
_get_experience_level_raises(candidate) ==
    LET experience == Get(candidate, "experience", EmptyList)
    IN \/ ~IsList(experience)
       \/ \E i \in 1..Len(experience.v) :
              ~IsStr(Get(experience.v[i], "duration", PyStr(<<>>)))

RECURSIVE ExperienceLevelFrom(_, _)
ExperienceLevelFrom(experience, i) ==
    IF i > Len(experience) THEN Zero
    ELSE LET duration_str == Lower(Get(experience[i], "duration", PyStr(<<>>)).v)
             years == IF ~Contains(duration_str, YEAR) THEN Zero
                      ELSE IF FirstNumWordFrom(duration_str, YEAR, 1) = 0 THEN RInt(1)
                      ELSE NumBeforeWord(duration_str, YEAR)
         IN RAdd(years, ExperienceLevelFrom(experience, i + 1))

_get_experience_level(candidate) ==
    ExperienceLevelFrom(Get(candidate, "experience", EmptyList).v, 1)

TopCandidates == 5
ExperienceGap == 3

Top(candidates) == SubSeq(candidates, 1, IF Len(candidates) < TopCandidates
                                         THEN Len(candidates) ELSE TopCandidates)

_identify_key_differences_raises(candidates) ==
    /\ Len(candidates) >= 2
    /\ \E i \in 1..Len(Top(candidates)) : _get_experience_level_raises(candidates[i])

\* the loop of lines 242-247: an empty running set is started again from the
\* next candidate's skills
RECURSIVE CommonMatchingFrom(_, _, _)
CommonMatchingFrom(top_candidates, i, common_matching) ==
    IF i > Len(top_candidates) THEN common_matching
    ELSE LET skills == Get(top_candidates[i], "matching_skills", {})
         IN CommonMatchingFrom(top_candidates, i + 1,
                               IF common_matching # {} THEN common_matching \cap skills
                               ELSE skills)

\* the differences list; a skills message names up to three members of its
\* set, an experience message the two bounds
_identify_key_differences(candidates) ==
    IF Len(candidates) < 2
    THEN << [kind |-> "Not enough candidates to compare differences."] >>
    ELSE LET top_candidates == Top(candidates)
             N == 1..Len(top_candidates)
             common_matching == CommonMatchingFrom(top_candidates, 1, {})
             all_missing_skills ==
                 UNION {Get(top_candidates[i], "missing_skills", {}) : i \in N}
             levels == {_get_experience_level(top_candidates[i]) : i \in N}
             max_exp == CHOOSE x \in levels : \A y \in levels : RLe(y, x)
             min_exp == CHOOSE x \in levels : \A y \in levels : RLe(x, y)
         IN (IF common_matching # {}
             THEN << [kind |-> "All top candidates possess", skills |-> common_matching] >>
             ELSE <<>>)
            \o (IF all_missing_skills # {}
                THEN << [kind |-> "Skills lacking across candidates",
                         skills |-> all_missing_skills] >>
                ELSE <<>>)
            \o (IF RLe(RInt(ExperienceGap), RSub(max_exp, min_exp))
                THEN << [kind |-> "Significant experience gap",
                         min_exp |-> min_exp, max_exp |-> max_exp] >>
                ELSE <<>>)

\* one entry of the comparison dict
ComparisonEntry(candidate) ==
    [ats_score |-> Get(candidate, "ats_score", Zero),
     skill_match |-> Get(candidate, "skill_match", Zero),
     experience_match |-> Get(candidate, "experience_match", Zero),
     education_match |-> Get(candidate, "education_match", Zero),
     matching_skills |-> Get(candidate, "matching_skills", {}),
     missing_skills |-> Get(candidate, "missing_skills", {})]

\* the comparison dict, keyed by name: a later candidate of the same name
\* replaces the earlier entry
RECURSIVE ComparisonFrom(_, _, _)
ComparisonFrom(top_candidates, i, comparison) ==
    IF i > Len(top_candidates) THEN comparison
    ELSE ComparisonFrom(top_candidates, i + 1,
                        (Get(top_candidates[i], "name", "Unknown")
                             :> ComparisonEntry(top_candidates[i])) @@ comparison)

\* generate_comparison_data has no try block
generate_comparison_data_raises(candidates) == _identify_key_differences_raises(candidates)

\* variant: the guard for an empty list is left out
generate_comparison_data_unguarded(candidates) ==
    [comparison |-> ComparisonFrom(Top(candidates), 1, <<>>),
     key_differences |-> _identify_key_differences(candidates)]

generate_comparison_data(candidates) ==
    IF candidates = <<>> THEN [comparison |-> <<>>, key_differences |-> <<>>]
    ELSE [comparison |-> ComparisonFrom(Top(candidates), 1, <<>>),
          key_differences |-> _identify_key_differences(candidates)]

(***************************************************************************)
(* ATSScoringService                                                       *)
(***************************************************************************)
\* variant: a fallback result replaces what the sibling tasks have stored
StoreResult_dropping(results, file_name, value) ==
    IF "error" \in DOMAIN value THEN (file_name :> value)
    ELSE (file_name :> value) @@ results

\* results[file_name] = future.result() of the as_completed loops
StoreResult(results, file_name, value) == (file_name :> value) @@ results

\* the indices of the analysed sections whose score is below 0.7
FlaggedSections(scores) ==
    {k \in 1..Len(scores) : RLt(scores[k].score, Rat(7, 10))}

\* detect_ai_content: analyze_resume catches every exception itself, so the
\* AttributeError branch is never taken
detect_ai_content(resume_data, scores) ==
    LET result == analyze_resume(resume_data, scores)
    IN IF "error" \in DOMAIN result \/ result.analysis # "llm"
       THEN [flagged_sections |-> {}] @@ result
       ELSE [flagged_sections |-> FlaggedSections(scores)] @@ result

\* step 5 of process_job_and_resumes: one candidate dict
BuildCandidate(file_name, resume_data, ats_scores, ai_detection_results) ==
    LET candidate == resume_data @@ [file_name |-> file_name,
                                     name |-> Get(resume_data, "name", "Unknown")]
        with_scores == IF file_name \in DOMAIN ats_scores
                       THEN ats_scores[file_name] @@ candidate
                       ELSE candidate
    IN IF file_name \in DOMAIN ai_detection_results
       THEN [authenticity_score |->
                 Get(ai_detection_results[file_name], "authenticity_score", Rat(1, 2)),
             flagged_sections |->
                 Get(ai_detection_results[file_name], "flagged_sections", {}),
             ai_analysis |-> Get(ai_detection_results[file_name], "analysis", "")]
            @@ with_scores
       ELSE with_scores

\* the candidates list, in the insertion order of processed_resumes
BuildCandidates(processed_resumes, ats_scores, ai_detection_results) ==
    [i \in 1..Len(processed_resumes) |->
        BuildCandidate(processed_resumes[i].file_name, processed_resumes[i].resume_data,
                       ats_scores, ai_detection_results)]

\* the dict of the except branch of process_job_and_resumes
PipelineError ==
    [error |-> "raised", job_requirements |-> <<>>, candidates |-> <<>>,
     ranking_results |-> <<>>]

\* steps 5 to 7 and the return of process_job_and_resumes
process_job_and_resumes(job_requirements, processed, scores, detections, reply) ==
    LET candidates == BuildCandidates(processed, scores, detections)
        ranking == rank_candidates(candidates, reply)
        ranking_results == ranking.result
    IN IF generate_comparison_data_raises(ranking_results.ranked_candidates)
       THEN PipelineError
       ELSE [job_requirements |-> job_requirements,
             candidates |-> ranking.scored,
             ranking_results |->
                 generate_comparison_data(ranking_results.ranked_candidates)
                     @@ ranking_results]

(***************************************************************************)
(* Input records                                                           *)
(***************************************************************************)
PYTHON_ == <<"P","y","t","h","o","n">>
SQL_ == <<"S","Q","L">>
POSTGRESQL_ == <<"p","o","s","t","g","r","e","s","q","l">>
DOCKER_ == <<"D","o","c","k","e","r">>
PYTHON_LC == <<"p","y","t","h","o","n">>
SQL_LC == <<"s","q","l">>
DOCKER_LC == <<"d","o","c","k","e","r">>
DATA_ == <<"d","a","t","a">>
DATA_ENGINEER == <<"D","a","t","a"," ","E","n","g","i","n","e","e","r">>
SENIOR_DATA_ENGINEER == <<"S","e","n","i","o","r"," ","D","a","t","a"," ","E","n","g","i","n","e","e","r">>
ANALYST == <<"A","n","a","l","y","s","t">>
ACME == <<"A","c","m","e">>
YEARS_3_5 == <<"3","-","5"," ","y","e","a","r","s">>
YEARS_2_TO_4 == <<"2"," ","t","o"," ","4"," ","y","e","a","r","s">>
YEARS_5 == <<"5","+"," ","y","e","a","r","s">>
BACHELOR_REQ == <<"B","a","c","h","e","l","o","r","'","s"," ","d","e","g","r","e","e">>
PHD_REQ == <<"P","h","D"," ","r","e","q","u","i","r","e","d">>
BSC == <<"B","a","c","h","e","l","o","r"," ","o","f"," ","S","c","i","e","n","c","e">>
MSC == <<"M","a","s","t","e","r"," ","o","f"," ","S","c","i","e","n","c","e">>
DIPLOMA == <<"D","i","p","l","o","m","a">>
DUR_2Y6M == <<"2"," ","y","e","a","r","s"," ","6"," ","m","o","n","t","h","s">>
DUR_18M == <<"1","8"," ","m","o","n","t","h","s">>
DUR_6Y == <<"6"," ","y","e","a","r","s">>
DUR_1Y == <<"1"," ","Y","e","a","r">>
DUR_NA == <<"n","/","a">>
JAN_2019 == <<"J","a","n"," ","2","0","1","9">>
JAN_2020 == <<"J","a","n"," ","2","0","2","0">>
JAN_2022 == <<"J","a","n"," ","2","0","2","2">>
Y2022 == <<"2","0","2","2">>
PRESENT_ == <<"P","r","e","s","e","n","t">>
SUMMER == <<"l","a","s","t"," ","s","u","m","m","e","r">>
SUMMARY_TEXT == <<"S","Q","L"," ","a","n","d"," ","d","a","t","a"," ","p","i","p","e","l","i","n","e","s">>
LONG_DESCRIPTION ==
    <<"b","u","i","l","t"," ","d","o","c","k","e","r"," ","i","m","a","g","e","s"," ","a","n","d"," ","s","q","l"," ","d","a","t","a">>
    \o <<" ","p","i","p","e","l","i","n","e","s"," ","f","o","r"," ","t","h","e"," ","a","n","a","l","y","t","i","c","s"," ","t","e","a","m">>
BUILT_PIPELINES == <<"b","u","i","l","t"," ","d","o","c","k","e","r"," ","i","m","a","g","e","s">>

\* job_requirements dicts, shaped as JobAnalyzerAgent.analyze_job_description
\* returns them
JobDataEngineer ==
    [job_title |-> DATA_ENGINEER,
     required_skills |-> <<PYTHON_, SQL_>>,
     preferred_skills |-> <<DOCKER_>>,
     years_of_experience |-> PyStr(YEARS_3_5),
     education_requirements |-> BACHELOR_REQ,
     critical_keywords |-> <<DATA_>>]

JobAnalyst ==
    [job_title |-> ANALYST,
     required_skills |-> <<SQL_LC>>,
     preferred_skills |-> <<>>,
     years_of_experience |-> PyInt(3),
     education_requirements |-> PHD_REQ,
     critical_keywords |-> <<>>]

JobSenior ==
    [job_title |-> SENIOR_DATA_ENGINEER,
     required_skills |-> <<DOCKER_LC, SQL_>>,
     preferred_skills |-> <<PYTHON_LC>>,
     years_of_experience |-> PyStr(YEARS_2_TO_4),
     education_requirements |-> <<>>]

JobEmpty == [required_skills |-> <<>>, preferred_skills |-> <<>>]

Jobs == {JobDataEngineer, JobAnalyst, JobSenior, JobEmpty}

\* resume_data dicts, shaped as ResumeProcessorAgent.process_resume returns them
ResumeDates ==
    [name |-> "dates",
     skills |-> <<PYTHON_LC, POSTGRESQL_>>,
     experience |-> PyList(<< [title |-> DATA_ENGINEER, company |-> ACME,
                        start_date |-> JAN_2019, end_date |-> PRESENT_,
                        description |-> LONG_DESCRIPTION] >>),
     education |-> << [degree |-> BSC] >>,
     summary |-> PyStr(SUMMARY_TEXT)]

ResumeDuration ==
    [name |-> "duration",
     skills |-> <<SQL_, DOCKER_>>,
     experience |-> PyList(<< [title |-> SENIOR_DATA_ENGINEER, company |-> ACME,
                        duration |-> PyStr(DUR_2Y6M), description |-> BUILT_PIPELINES],
                       [title |-> ANALYST, duration |-> PyStr(DUR_18M)] >>),
     education |-> << [degree |-> MSC] >>,
     summary |-> PyStr(<<>>)]

ResumeShort ==
    [name |-> "short",
     skills |-> <<SQL_LC>>,
     experience |-> PyList(<< [title |-> ANALYST, start_date |-> JAN_2020,
                        end_date |-> JAN_2022],
                       [title |-> ANALYST, start_date |-> <<>>, end_date |-> Y2022],
                       [title |-> ANALYST, start_date |-> JAN_2022, end_date |-> JAN_2020],
                       [title |-> DATA_ENGINEER, duration |-> PyStr(DUR_NA)] >>),
     education |-> << [degree |-> DIPLOMA] >>,
     summary |-> PyStr(SUMMARY_TEXT)]

ResumeNumericDuration ==
    [name |-> "numeric",
     skills |-> <<PYTHON_, SQL_>>,
     experience |-> PyList(<< [title |-> DATA_ENGINEER, duration |-> PyInt(2)] >>),
     education |-> << [degree |-> BSC] >>,
     summary |-> PyStr(SUMMARY_TEXT)]

ResumeNullDuration ==
    [name |-> "null",
     skills |-> <<PYTHON_, SQL_>>,
     experience |-> PyList(<< [title |-> DATA_ENGINEER, duration |-> PyNone,
                        start_date |-> JAN_2020, end_date |-> SUMMER] >>),
     education |-> << [degree |-> BSC] >>,
     summary |-> PyStr(SUMMARY_TEXT)]

ResumeWorkExperience ==
    [name |-> "work",
     skills |-> <<DOCKER_LC>>,
     workExperience |-> PyList(<< [title |-> DATA_ENGINEER, duration |-> PyStr(DUR_1Y)] >>),
     education |-> <<>>,
     summary |-> PyStr(<<>>)]

\* every skill of JobDataEngineer and a description long enough for the detector
ResumeStrong ==
    [skills |-> <<PYTHON_, SQL_, DOCKER_>>,
     experience |-> PyList(<< [title |-> DATA_ENGINEER, company |-> ACME,
                        duration |-> PyStr(DUR_6Y),
                        description |-> LONG_DESCRIPTION] >>),
     education |-> << [degree |-> MSC] >>,
     summary |-> PyStr(SUMMARY_TEXT)]

\* what process_resume builds when the reply holds no JSON object (lines 105-114)
ResumeDefaults == process_resume(<<>>, "plain_text")

\* the reply's JSON object carries "experience": null
ResumeNullExperience ==
    [name |-> "noexp",
     skills |-> <<SQL_LC, DOCKER_LC>>,
     experience |-> PyNone,
     education |-> << [degree |-> MSC] >>,
     summary |-> PyStr(SUMMARY_TEXT)]

\* a current job that started recently: the years so far depend on the clock
ResumeOngoing ==
    [name |-> "ongoing",
     skills |-> <<PYTHON_, SQL_>>,
     experience |-> PyList(<< [title |-> DATA_ENGINEER, company |-> ACME,
                        start_date |-> JAN_2022, end_date |-> PRESENT_] >>),
     education |-> << [degree |-> BSC] >>,
     summary |-> PyStr(SUMMARY_TEXT)]

Resumes == {ResumeDates, ResumeDuration, ResumeShort, ResumeNumericDuration,
            ResumeNullDuration, ResumeWorkExperience, ResumeDefaults,
            ResumeNullExperience, ResumeOngoing}

\* datetime.now() as <<year, month>>
StartNows == {<<2024, 6>>, <<2024, 12>>}
NextMonth(t) == IF t[2] = 12 THEN <<t[1] + 1, 1>> ELSE <<t[1], t[2] + 1>>

(***************************************************************************)
(* State                                                                   *)
(***************************************************************************)
VARIABLES
    job,      \* the job_requirements dict
    now,      \* datetime.now() as <<year, month>>
    resume,   \* the resume_data dict handed to score_resume
    calls,    \* the calls of score_resume made so far: [reply, now, result]
    candidates,   \* the list handed to rank_candidates
    ranking,      \* <<>> or <<the dict rank_candidates returned>>
    comparison,   \* <<>> or <<the outcome of generate_comparison_data>>
    resume_files,          \* file name -> the JSON object its text parses to
    processed_resumes,     \* results of batch_process_resumes, in insertion order
    ats_scores,            \* results of batch_score_resumes
    score_replies,         \* file name -> the LLM reply its scoring task received
    ai_detection_results,  \* results of batch_detect_ai_content
    output,                \* <<>> or <<the dict process_job_and_resumes returned>>
    args,      \* the arguments of one call of a leaf scorer
    returned   \* <<>> or <<the outcome of that call>>

scoreVars == <<resume, calls>>
rankVars == <<candidates, ranking, comparison>>
serviceVars == <<resume_files, processed_resumes, ats_scores, score_replies,
                 ai_detection_results, output>>
leafVars == <<args, returned>>
vars == <<job, now, scoreVars, rankVars, serviceVars, leafVars>>

MaxCalls == 2
MaxCandidates == 2
MaxFiles == 2

LeafIdle == args = <<>> /\ returned = <<>>
ScoreIdle == resume = <<>> /\ calls = <<>>
RankIdle == candidates = <<>> /\ ranking = <<>> /\ comparison = <<>>
ServiceIdle ==
    /\ resume_files = <<>>
    /\ processed_resumes = <<>>
    /\ ats_scores = <<>>
    /\ score_replies = <<>>
    /\ ai_detection_results = <<>>
    /\ output = <<>>

(***************************************************************************)
(* Scoring one resume: score_resume is called on the same two records,     *)
(* each call with its own LLM reply, while the clock may move on.          *)
(***************************************************************************)
InitScore ==
    /\ job \in Jobs
    /\ resume \in Resumes
    /\ now \in StartNows
    /\ calls = <<>>
    /\ RankIdle
    /\ ServiceIdle
    /\ LeafIdle

ScoreResume ==
    /\ Len(calls) < MaxCalls
    /\ \E reply \in Replies :
           calls' = Append(calls, [reply |-> reply, now |-> now,
                                   result |-> score_resume(job, resume, reply, now)])
    /\ UNCHANGED <<job, resume, now, rankVars, serviceVars, leafVars>>

Tick ==
    /\ now \in StartNows
    /\ now' = NextMonth(now)
    /\ UNCHANGED <<job, resume, calls, rankVars, serviceVars, leafVars>>

NextScore == ScoreResume \/ Tick

SpecScore == InitScore /\ [][NextScore]_vars

(***************************************************************************)
(* Ranking: rank_candidates, then generate_comparison_data on its ranked   *)
(* list, for candidate lists as step 5 of process_job_and_resumes builds   *)
(* them.                                                                   *)
(***************************************************************************)
RankJob == JobDataEngineer
RankNow == <<2024, 6>>
RankTexts == {ResumeStrong, ResumeDuration, ResumeNumericDuration, ResumeNullExperience}
RankReplies == {"json_object", "json_nonobject"}

\* the candidate dict of one resume, file_name left out
CandidateOf(resume_data, ats_result, detection) ==
    LET scored == IF "error" \in DOMAIN resume_data THEN <<>> ELSE (0 :> ats_result)
        detected == IF "error" \in DOMAIN resume_data THEN <<>> ELSE (0 :> detection)
    IN BuildCandidate(0, resume_data, scored, detected)

CandidatesOf(resume_data) ==
    { CandidateOf(resume_data,
                  score_resume(RankJob, resume_data, reply, RankNow),
                  detect_ai_content(resume_data, scores)) :
          reply \in RankReplies, scores \in ScoreChoices(resume_data) }

CandidatePool ==
    UNION { CandidatesOf(process_resume(parsed, reply)) :
                parsed \in RankTexts, reply \in ProcessReplies }

InitRank ==
    /\ job = RankJob
    /\ now = RankNow
    /\ \E n \in 0..MaxCandidates :
           \E list \in [1..n -> CandidatePool] :
               candidates = [i \in 1..n |-> [file_name |-> i] @@ list[i]]
    /\ ranking = <<>>
    /\ comparison = <<>>
    /\ ScoreIdle
    /\ ServiceIdle
    /\ LeafIdle

\* rank_candidates(job_requirements, candidates)
RankCandidates ==
    /\ ranking = <<>>
    /\ \E reply \in InsightReplies :
           LET ranked == rank_candidates(candidates, reply)
           IN /\ ranking' = <<ranked.result>>
              /\ candidates' = ranked.scored
    /\ UNCHANGED <<job, now, comparison, scoreVars, serviceVars, leafVars>>

\* generate_comparison_data(job_requirements, ranking["ranked_candidates"])
GenerateComparison ==
    /\ ranking # <<>>
    /\ comparison = <<>>
    /\ LET ranked_candidates == ranking[1].ranked_candidates
       IN comparison' =
              IF generate_comparison_data_raises(ranked_candidates)
              THEN << [raised |-> TRUE] >>
              ELSE << [raised |-> FALSE,
                       data |-> generate_comparison_data(ranked_candidates)] >>
    /\ UNCHANGED <<job, now, candidates, ranking, scoreVars, serviceVars, leafVars>>

NextRank == RankCandidates \/ GenerateComparison

SpecRank == InitRank /\ [][NextRank]_vars

(***************************************************************************)
(* The pipeline of process_job_and_resumes: the tasks of each batch step   *)
(* complete in any order, a step starts when the one before has returned.  *)
(***************************************************************************)
ServiceJob == JobDataEngineer
ServiceTexts == {ResumeDates, ResumeNumericDuration}
ServiceReplies == {"json_object", "json_nonobject"}

Files == DOMAIN resume_files
ProcessedFiles == {processed_resumes[i].file_name : i \in 1..Len(processed_resumes)}
ResumeDataOf(file_name) ==
    LET i == CHOOSE i \in 1..Len(processed_resumes) :
                 processed_resumes[i].file_name = file_name
    IN processed_resumes[i].resume_data
\* variant: every processed file is submitted, failed ones included
Submitted_unfiltered == ProcessedFiles

\* the files batch_score_resumes and batch_detect_ai_content submit
Submitted == {f \in ProcessedFiles : "error" \notin DOMAIN ResumeDataOf(f)}

InitService ==
    /\ job = ServiceJob
    /\ now = RankNow
    /\ \E n \in 0..MaxFiles : resume_files \in [1..n -> ServiceTexts]
    /\ processed_resumes = <<>>
    /\ ats_scores = <<>>
    /\ score_replies = <<>>
    /\ ai_detection_results = <<>>
    /\ output = <<>>
    /\ ScoreIdle
    /\ RankIdle
    /\ LeafIdle

\* a task of batch_process_resumes completes
ProcessTask ==
    /\ \E file_name \in Files \ ProcessedFiles :
           \E reply \in ProcessReplies :
               processed_resumes' =
                   Append(processed_resumes,
                          [file_name |-> file_name,
                           resume_data |-> process_resume(resume_files[file_name], reply)])
    /\ UNCHANGED <<job, now, resume_files, ats_scores, score_replies,
                   ai_detection_results, output, scoreVars, rankVars, leafVars>>

\* a task of batch_score_resumes completes; score_resume never raises, so
\* the except branch of the as_completed loop is never taken
ScoreTask ==
    /\ ProcessedFiles = Files
    /\ \E file_name \in Submitted \ DOMAIN ats_scores :
           \E reply \in ServiceReplies :
               /\ ats_scores' =
                      StoreResult(ats_scores, file_name,
                                  score_resume(job, ResumeDataOf(file_name), reply, now))
               /\ score_replies' = (file_name :> reply) @@ score_replies
    /\ UNCHANGED <<job, now, resume_files, processed_resumes,
                   ai_detection_results, output, scoreVars, rankVars, leafVars>>

\* a task of batch_detect_ai_content completes
DetectTask ==
    /\ ProcessedFiles = Files
    /\ DOMAIN ats_scores = Submitted
    /\ \E file_name \in Submitted \ DOMAIN ai_detection_results :
           \E scores \in ScoreChoices(ResumeDataOf(file_name)) :
               ai_detection_results' =
                   StoreResult(ai_detection_results, file_name,
                               detect_ai_content(ResumeDataOf(file_name), scores))
    /\ UNCHANGED <<job, now, resume_files, processed_resumes, ats_scores,
                   score_replies, output, scoreVars, rankVars, leafVars>>

\* steps 5 to 7: build the candidates, rank them, compare them, return
RankAndReturn ==
    /\ ProcessedFiles = Files
    /\ DOMAIN ats_scores = Submitted
    /\ DOMAIN ai_detection_results = Submitted
    /\ output = <<>>
    /\ \E reply \in InsightReplies :
           output' = << process_job_and_resumes(job, processed_resumes, ats_scores,
                                                ai_detection_results, reply) >>
    /\ UNCHANGED <<job, now, resume_files, processed_resumes, ats_scores,
                   score_replies, ai_detection_results, scoreVars, rankVars, leafVars>>

NextService == ProcessTask \/ ScoreTask \/ DetectTask \/ RankAndReturn

SpecService == InitService /\ [][NextService]_vars

(***************************************************************************)
(* The leaf scorers of ATSScoringAgent, each called once on arguments      *)
(* drawn from small sets.                                                  *)
(***************************************************************************)
MYSQL_LC == <<"m","y","s","q","l">>
EMPTY_ == <<>>

\* lower-cased skills: exact, contained in one another, unrelated, and empty
SkillPool == {SQL_LC, POSTGRESQL_, MYSQL_LC, PYTHON_LC, EMPTY_}

SkillArgs ==
    [fn : {"_calculate_skill_match"},
     required_skills : SUBSET SkillPool,
     candidate_skills : SUBSET SkillPool]

YEARS_0 == <<"0"," ","y","e","a","r","s">>
MAR_2021 == <<"M","a","r","c","h"," ","2","0","2","1">>
DEC_2021 == <<"D","E","C"," ","2","0","2","1">>
AT_LEAST_3 == <<"a","t"," ","l","e","a","s","t"," ","3"," ","y","e","a","r","s">>

\* experience entries: durations that parse, that match no pattern, that are
\* not text; dates that parse, that are ongoing, that are empty or hold no year
EntryPool ==
    { [duration |-> PyStr(DUR_6Y)],
      [duration |-> PyStr(DUR_1Y)],
      [duration |-> PyStr(DUR_NA)],
      [duration |-> PyStr(DUR_18M)],
      [duration |-> PyStr(DUR_2Y6M), start_date |-> JAN_2019, end_date |-> Y2022],
      [duration |-> PyInt(2)],
      [duration |-> PyNone, start_date |-> JAN_2019, end_date |-> Y2022],
      [start_date |-> JAN_2020, end_date |-> PRESENT_],
      [start_date |-> JAN_2020, end_date |-> JAN_2022],
      [start_date |-> MAR_2021, end_date |-> DEC_2021],
      [start_date |-> JAN_2019],
      [start_date |-> <<>>, end_date |-> Y2022],
      [start_date |-> SUMMER, end_date |-> Y2022],
      [start_date |-> JAN_2020, end_date |-> SUMMER],
      [start_date |-> JAN_2022, end_date |-> JAN_2020] }

MaxEntries == 2

ExperienceLists == UNION {[1..n -> EntryPool] : n \in 0..MaxEntries}

YearsValues ==
    {PyStr(YEARS_3_5), PyStr(YEARS_2_TO_4), PyStr(YEARS_5), PyStr(AT_LEAST_3),
     PyStr(YEARS_0), PyStr(NOT_SPECIFIED), PyInt(3)}

ExperienceArgs ==
    [fn : {"_calculate_experience_match"},
     job_requirements : {[years_of_experience |-> y] : y \in YearsValues}
                            \cup {[job_title |-> ANALYST]},
     resume_data : {[experience |-> PyList(l)] : l \in ExperienceLists}
                       \cup {[skills |-> <<>>]}]

YearsArgs ==
    [fn : {"_calculate_total_experience_years"},
     experience : {PyList(l) : l \in ExperienceLists}]

MASTER_REQ == <<"M","a","s","t","e","r","'","s"," ","d","e","g","r","e","e">>
HS_DIPLOMA_REQ == <<"H","i","g","h"," ","s","c","h","o","o","l"," ","d","i","p","l","o","m","a">>
UNDERGRADUATE == <<"U","n","d","e","r","g","r","a","d","u","a","t","e"," ","d","e","g","r","e","e">>
HIGH_SCHOOL == <<"H","i","g","h"," ","S","c","h","o","o","l">>
MBA_ == <<"M","B","A">>
PHD_ == <<"P","h","D">>
CERTIFICATE == <<"C","e","r","t","i","f","i","c","a","t","e">>

\* requirement texts: none, one tier, two tiers
RequirementTexts == {EMPTY_, BACHELOR_REQ, MASTER_REQ, PHD_REQ, HS_DIPLOMA_REQ}

\* education entries: a degree of each tier, one without keyword, one without degree
DegreePool ==
    { [degree |-> HIGH_SCHOOL], [degree |-> DIPLOMA], [degree |-> BSC],
      [degree |-> UNDERGRADUATE], [degree |-> MSC], [degree |-> MBA_],
      [degree |-> PHD_], [degree |-> CERTIFICATE], [field |-> DATA_] }

MaxDegrees == 2

EducationLists == UNION {[1..n -> DegreePool] : n \in 0..MaxDegrees}

EducationArgs ==
    [fn : {"_calculate_education_match"},
     job_requirements : {[education_requirements |-> t] : t \in RequirementTexts}
                            \cup {[job_title |-> ANALYST]},
     resume_data : {[education |-> l] : l \in EducationLists} \cup {[skills |-> <<>>]}]

GO_ == <<"G","o">>
AND_UC == <<"A","N","D">>
KAFKA_ == <<"K","a","f","k","a">>
DATA_UC == <<"D","a","t","a">>

\* keywords that are stop words or too short beside keywords that count
JobStopWords ==
    [required_skills |-> <<GO_, SQL_>>,
     preferred_skills |-> <<AND_UC>>,
     critical_keywords |-> <<DATA_UC, KAFKA_>>]

\* no keyword is left after the filter
JobOnlyStopWords == [required_skills |-> <<GO_>>, critical_keywords |-> <<AND_UC>>]

KeywordArgs ==
    [fn : {"_calculate_keyword_density"},
     job_requirements : Jobs \cup {JobStopWords, JobOnlyStopWords},
     resume_data : Resumes]

JobTitles == {EMPTY_, DATA_ENGINEER, SENIOR_DATA_ENGINEER, ANALYST}

\* experience entries as _calculate_title_match reads them
TitlePool ==
    { [title |-> DATA_ENGINEER], [title |-> SENIOR_DATA_ENGINEER],
      [title |-> ANALYST], [company |-> ACME] }

MaxTitles == 4

TitleArgs ==
    [fn : {"_calculate_title_match"},
     job_title : JobTitles,
     experience : {PyList(l) : l \in UNION {[1..n -> TitlePool] : n \in 0..MaxTitles}}]

LeafArgs ==
    SkillArgs \cup ExperienceArgs \cup YearsArgs \cup EducationArgs \cup KeywordArgs
        \cup TitleArgs

InitLeaf ==
    /\ args \in LeafArgs
    /\ returned = <<>>
    /\ job = JobEmpty
    /\ now \in StartNows
    /\ ScoreIdle
    /\ RankIdle
    /\ ServiceIdle

\* _calculate_skill_match(required_skills, candidate_skills)
CalculateSkillMatch ==
    /\ args.fn = "_calculate_skill_match"
    /\ returned = <<>>
    /\ returned' = << [raised |-> FALSE,
                       value |-> _calculate_skill_match(args.required_skills,
                                                        args.candidate_skills)] >>
    /\ UNCHANGED <<job, now, args, scoreVars, rankVars, serviceVars>>

\* _calculate_experience_match(job_requirements, resume_data)
CalculateExperienceMatch ==
    /\ args.fn = "_calculate_experience_match"
    /\ returned = <<>>
    /\ returned' =
           IF _calculate_experience_match_raises(args.job_requirements, args.resume_data)
           THEN << [raised |-> TRUE] >>
           ELSE << [raised |-> FALSE,
                    value |-> _calculate_experience_match(args.job_requirements,
                                                          args.resume_data, now)] >>
    /\ UNCHANGED <<job, now, args, scoreVars, rankVars, serviceVars>>

\* _calculate_total_experience_years(experience)
CalculateTotalExperienceYears ==
    /\ args.fn = "_calculate_total_experience_years"
    /\ returned = <<>>
    /\ returned' =
           IF _calculate_total_experience_years_raises(args.experience)
           THEN << [raised |-> TRUE] >>
           ELSE << [raised |-> FALSE,
                    value |-> _calculate_total_experience_years(args.experience, now)] >>
    /\ UNCHANGED <<job, now, args, scoreVars, rankVars, serviceVars>>

\* _calculate_education_match(job_requirements, resume_data)
CalculateEducationMatch ==
    /\ args.fn = "_calculate_education_match"
    /\ returned = <<>>
    /\ returned' = << [raised |-> FALSE,
                       value |-> _calculate_education_match(args.job_requirements,
                                                            args.resume_data)] >>
    /\ UNCHANGED <<job, now, args, scoreVars, rankVars, serviceVars>>

\* _calculate_keyword_density(job_requirements, resume_data)
CalculateKeywordDensity ==
    /\ args.fn = "_calculate_keyword_density"
    /\ returned = <<>>
    /\ returned' =
           IF _calculate_keyword_density_raises(args.job_requirements, args.resume_data)
           THEN << [raised |-> TRUE] >>
           ELSE << [raised |-> FALSE,
                    value |-> _calculate_keyword_density(args.job_requirements,
                                                         args.resume_data)] >>
    /\ UNCHANGED <<job, now, args, scoreVars, rankVars, serviceVars>>

\* _calculate_title_match(job_title, experience)
CalculateTitleMatch ==
    /\ args.fn = "_calculate_title_match"
    /\ returned = <<>>
    /\ returned' = << [raised |-> FALSE,
                       value |-> _calculate_title_match(args.job_title,
                                                        args.experience)] >>
    /\ UNCHANGED <<job, now, args, scoreVars, rankVars, serviceVars>>

NextLeaf ==
    \/ CalculateSkillMatch
    \/ CalculateExperienceMatch
    \/ CalculateTotalExperienceYears
    \/ CalculateEducationMatch
    \/ CalculateKeywordDensity
    \/ CalculateTitleMatch

SpecLeaf == InitLeaf /\ [][NextLeaf]_vars

(***************************************************************************)
(* Properties of score_resume                                              *)
(***************************************************************************)
NumericFields(r) ==
    <<r.ats_score, r.skill_match, r.experience_match, r.education_match,
      r.keyword_density, r.title_match, r.matching_skills, r.missing_skills>>

SubScores(r) ==
    <<r.skill_match, r.experience_match, r.education_match, r.keyword_density,
      r.title_match>>

IsFallback(r) == "error" \in DOMAIN r

\* C1: for fixed job and candidate records (and the same clock reading), the
\* numeric fields of the result are the same whatever the narrative LLM call
\* did: two calls that differ only in the reply agree on every numeric field.
C1_NumericFieldsIgnoreTheReply ==
    \A i, j \in 1..Len(calls) :
        calls[i].now = calls[j].now
            => NumericFields(calls[i].result) = NumericFields(calls[j].result)

\* C2: whenever a step of score_resume raises, the call returns the neutral
\* fallback: ats_score and the five sub-scores are 50.0 and both skill lists
\* are empty.
C2_RaiseGivesNeutralFallback ==
    \A i \in 1..Len(calls) :
        score_resume_raises(job, resume, calls[i].reply)
            => /\ calls[i].result.ats_score = <<50, 1>>
               /\ \A k \in 1..5 : SubScores(calls[i].result)[k] = <<50, 1>>
               /\ calls[i].result.matching_skills = {}
               /\ calls[i].result.missing_skills = {}

\* a call whose experience scorer raised on the resume's data has returned
C2_Witness ==
    \E i \in 1..Len(calls) :
        /\ _calculate_experience_match_raises(job, resume)
        /\ IsFallback(calls[i].result)

\* C7: ats_score and the five sub-scores of every result lie in [0,100], on
\* the normal path and on the fallback path.
C7_ScoresWithin0To100 ==
    \A i \in 1..Len(calls) :
        /\ InRange0To100(calls[i].result.ats_score)
        /\ \A k \in 1..5 : InRange0To100(SubScores(calls[i].result)[k])

\* one call took the fallback path and another returned a partial
\* experience score while the candidate has more years than some other job asks
C7_Witness ==
    \E i, j \in 1..Len(calls) :
        /\ IsFallback(calls[i].result)
        /\ ~IsFallback(calls[j].result)
        /\ RLt(Zero, calls[j].result.skill_match)
        /\ RLt(calls[j].result.skill_match, Hundred)
        /\ calls[j].result.experience_match = Hundred

\* C8: on every non-fallback result, ats_score is
\* min(100, 0.40 skill + 0.30 experience + 0.15 education + 0.10 keyword
\* + 0.05 title) of the sub-scores in that same result.
C8_AtsIsTheWeightedSum ==
    \A i \in 1..Len(calls) :
        LET r == calls[i].result
            sum == RAdd(RMul(Rat(2, 5), r.skill_match),
                   RAdd(RMul(Rat(3, 10), r.experience_match),
                   RAdd(RMul(Rat(3, 20), r.education_match),
                   RAdd(RMul(Rat(1, 10), r.keyword_density),
                        RMul(Rat(1, 20), r.title_match)))))
        IN ~IsFallback(r) => r.ats_score = RMin(Hundred, sum)

\* a non-fallback result whose skill and experience sub-scores differ
C8_Witness ==
    \E i \in 1..Len(calls) :
        /\ ~IsFallback(calls[i].result)
        /\ calls[i].result.skill_match # calls[i].result.experience_match
        /\ RLt(Zero, calls[i].result.ats_score)

(***************************************************************************)
(* Properties of rank_candidates                                           *)
(***************************************************************************)
Ranked == ranking[1].ranked_candidates

\* C6: for a non-empty candidate list the returned ranked_candidates is in
\* non-increasing order of composite_score, and candidates of equal
\* composite_score keep the relative order of the input list (file_name is
\* the position in the input list).
C6_RankedIsStablySortedDescending ==
    (ranking # <<>> /\ candidates # <<>>)
        => \A i, j \in 1..Len(Ranked) :
               i < j => /\ RLe(Ranked[j].composite_score, Ranked[i].composite_score)
                        /\ Ranked[i].composite_score = Ranked[j].composite_score
                               => Ranked[i].file_name < Ranked[j].file_name

\* C9: every candidate handed to rank_candidates carries
\* composite_score = min(100, round((0.5 ats_score + 0.3 skill_match
\* + 0.1 experience_match + 0.1 education_match)
\* * (0.8 + 0.4 authenticity_score), 2)), a missing authenticity_score
\* counting as 0.5 and a missing ats_score or sub-score as 50.0.
C9_CompositeScoreFormula ==
    ranking # <<>>
        => \A i \in 1..Len(candidates) :
               LET c == candidates[i]
                   ats == IF "ats_score" \in DOMAIN c THEN c.ats_score ELSE <<50, 1>>
                   skill == IF "skill_match" \in DOMAIN c THEN c.skill_match ELSE <<50, 1>>
                   experience == IF "experience_match" \in DOMAIN c
                                 THEN c.experience_match ELSE <<50, 1>>
                   education == IF "education_match" \in DOMAIN c
                                THEN c.education_match ELSE <<50, 1>>
                   authenticity == IF "authenticity_score" \in DOMAIN c
                                   THEN c.authenticity_score ELSE <<1, 2>>
                   base == RAdd(RMul(Rat(1, 2), ats),
                           RAdd(RMul(Rat(3, 10), skill),
                           RAdd(RMul(Rat(1, 10), experience),
                                RMul(Rat(1, 10), education))))
                   factor == RAdd(Rat(4, 5), RMul(Rat(2, 5), authenticity))
               IN /\ c.composite_score = RMin(Hundred, Round2(RMul(base, factor)))
                  /\ "authenticity_score" \notin DOMAIN c => factor = <<1, 1>>

\* rank_candidates has scored a candidate without authenticity_score and
\* without ats_score next to one whose product had to be rounded
C9_Witness ==
    /\ ranking # <<>>
    /\ \E i, j \in 1..Len(candidates) :
           /\ "authenticity_score" \notin DOMAIN candidates[i]
           /\ "ats_score" \notin DOMAIN candidates[i]
           /\ candidates[i].composite_score = <<50, 1>>
           /\ "authenticity_score" \in DOMAIN candidates[j]
           /\ candidates[j].composite_score =
                  Round2(RMul(candidates[j].composite_score, RInt(1)))
           /\ candidates[j].composite_score[2] = 100

\* C10: every record of ranked_candidates carries a composite_score in
\* [0,100] when its score fields are in [0,100], whatever authenticity_score
\* the detector supplied.
C10_CompositeScoreWithin0To100 ==
    ranking # <<>>
        => \A i \in 1..Len(Ranked) :
               (/\ InRange0To100(Get(Ranked[i], "ats_score", Fifty))
                /\ InRange0To100(Get(Ranked[i], "skill_match", Fifty))
                /\ InRange0To100(Get(Ranked[i], "experience_match", Fifty))
                /\ InRange0To100(Get(Ranked[i], "education_match", Fifty)))
                   => InRange0To100(Ranked[i].composite_score)

(***************************************************************************)
(* Properties of the pipeline                                              *)
(***************************************************************************)
\* the file names of ranked_candidates in order; <<>> for a result without
\* that list
RankedFiles(result) ==
    IF "ranked_candidates" \in DOMAIN result.ranking_results
    THEN [i \in 1..Len(result.ranking_results.ranked_candidates) |->
              result.ranking_results.ranked_candidates[i].file_name]
    ELSE <<>>

\* C3: process_job_and_resumes returns a result that is no error result and
\* whose ranking_results.ranked_candidates holds every input resume once,
\* whichever resumes failed to parse, score or pass detection and whatever
\* values their fields carry.
C3_EveryResumeIsRanked ==
    output # <<>>
        => /\ "error" \notin DOMAIN output[1]
           /\ "ranked_candidates" \in DOMAIN output[1].ranking_results
           /\ Len(RankedFiles(output[1])) = Cardinality(Files)
           /\ SeqToSet(RankedFiles(output[1])) = Files

\* processed_resumes as batch_process_resumes fills it when the tasks complete
\* in the order of submission
InSubmissionOrder ==
    [i \in 1..Len(processed_resumes) |->
        [file_name |-> i, resume_data |-> ResumeDataOf(i)]]

\* C4: the order of ranked_candidates is the one the same task results give
\* when the tasks complete in the order of submission: no interleaving of
\* task completions changes it, also among candidates of equal
\* composite_score.
C4_RankedOrderIgnoresCompletionOrder ==
    output # <<>>
        => RankedFiles(output[1]) =
               RankedFiles(process_job_and_resumes(job, InSubmissionOrder, ats_scores,
                                                   ai_detection_results, "plain_text"))

\* C5: in batch_score_resumes a completing task adds its own entry and
\* leaves the entries of the other tasks as they are; the entry is the
\* result score_resume computes for that resume alone, and when that scoring
\* raised it is the neutral fallback: every sub-score 50.0 and empty skill
\* lists. No submitted task is missing when the pipeline returns.
C5_FailedTaskLeavesSiblingsAlone ==
    [][ /\ ats_scores' # ats_scores
            => \E f \in DOMAIN score_replies' \ DOMAIN score_replies :
                   /\ DOMAIN ats_scores' = DOMAIN ats_scores \cup {f}
                   /\ \A g \in DOMAIN ats_scores : ats_scores'[g] = ats_scores[g]
                   /\ ats_scores'[f] =
                          score_resume(job, ResumeDataOf(f), score_replies'[f], now)
                   /\ score_resume_raises(job, ResumeDataOf(f), score_replies'[f])
                          => /\ ats_scores'[f].ats_score = <<50, 1>>
                             /\ \A k \in 1..5 : SubScores(ats_scores'[f])[k] = <<50, 1>>
                             /\ ats_scores'[f].matching_skills = {}
                             /\ ats_scores'[f].missing_skills = {}
        /\ output' # output => DOMAIN ats_scores = Submitted ]_vars

\* the batch has returned with the fallback of a task that raised next to
\* the normally computed result of another task
C5_Witness ==
    /\ DOMAIN ats_scores = Submitted
    /\ \E f, g \in DOMAIN ats_scores :
           /\ score_resume_raises(job, ResumeDataOf(f), score_replies[f])
           /\ IsFallback(ats_scores[f])
           /\ ~score_resume_raises(job, ResumeDataOf(g), score_replies[g])
           /\ ~IsFallback(ats_scores[g])
           /\ RLt(Fifty, ats_scores[g].ats_score)

\* the keys of a candidate dict other than composite_score
OtherKeys(candidate) == DOMAIN candidate \ {"composite_score"}

\* C11: rank_candidates and generate_comparison_data leave every field of
\* every candidate of the list as it was, the ScoreResult fields among them;
\* the only key rank_candidates adds or changes is composite_score.
C11_OnlyCompositeScoreIsWritten ==
    [][ /\ Len(candidates') = Len(candidates)
        /\ \A i \in 1..Len(candidates) :
               /\ OtherKeys(candidates'[i]) = OtherKeys(candidates[i])
               /\ \A k \in OtherKeys(candidates[i]) : candidates'[i][k] = candidates[i][k]
        /\ ranking' # ranking
               => \A i \in 1..Len(candidates) :
                      /\ "composite_score" \in DOMAIN candidates'[i]
                      /\ \E j \in 1..Len(ranking'[1].ranked_candidates) :
                             ranking'[1].ranked_candidates[j] = candidates'[i] ]_vars

\* both operations have run on a list with a scored candidate whose
\* composite_score differs from its ats_score
C11_Witness ==
    /\ ranking # <<>>
    /\ comparison # <<>>
    /\ ~comparison[1].raised
    /\ \E i \in 1..Len(candidates) :
           /\ "ats_score" \in DOMAIN candidates[i]
           /\ ~IsFallback(candidates[i])
           /\ candidates[i].composite_score # candidates[i].ats_score

\* C12: on a record whose optional fields are missing or hold the
\* placeholder the resume parser fills in (here: the parser's result for a
\* reply without JSON, summary = [] included), score_resume with a working
\* narrative call does not take the all-50 fallback and uses the defaults:
\* title_match 50 without experience, 100 for an empty skill requirement.
C12_PlaceholdersScoreWithDefaults ==
    \A i \in 1..Len(calls) :
        (resume = ResumeDefaults /\ calls[i].reply = "json_object")
            => /\ ~IsFallback(calls[i].result)
               /\ calls[i].result.title_match = <<50, 1>>
               /\ (Get(job, "required_skills", <<>>) = <<>>
                   /\ Get(job, "preferred_skills", <<>>) = <<>>)
                      => calls[i].result.skill_match = <<100, 1>>

\* C13: two calls of score_resume on the same job and candidate records
\* return the same numeric fields; stated for calls that also received the
\* same narrative reply, so that nothing but the two records could differ.
C13_SameRecordsSameResult ==
    \A i, j \in 1..Len(calls) :
        calls[i].reply = calls[j].reply
            => NumericFields(calls[i].result) = NumericFields(calls[j].result)

\* C14: for an empty candidate list rank_candidates returns an empty
\* ranked_candidates with the fixed message "No candidates to rank.", no
\* error key and no text of an LLM call, and generate_comparison_data
\* returns an empty comparison and no key differences without raising.
C14_EmptyListIsANormalOutcome ==
    candidates = <<>>
        => /\ ranking # <<>>
               => /\ ranking[1].ranked_candidates = <<>>
                  /\ ranking[1].insights = "No candidates to rank."
                  /\ DOMAIN ranking[1] = {"ranked_candidates", "insights"}
           /\ comparison # <<>>
               => /\ ~comparison[1].raised
                  /\ DOMAIN comparison[1].data.comparison = {}
                  /\ comparison[1].data.key_differences = <<>>

\* both operations have returned for the empty list
C14_Witness ==
    /\ candidates = <<>>
    /\ ranking # <<>>
    /\ comparison # <<>>

\* C15: on every result that is not the fallback, with all skills lower-cased,
\* matching_skills is the candidate's skills that are required or preferred,
\* missing_skills is the required or preferred skills the candidate lacks;
\* the two are disjoint and together are all required and preferred skills.
C15_MatchingAndMissingPartitionTheJobSkills ==
    LET lowered(skills) == {Lower(s) : s \in SeqToSet(skills)}
        wanted == lowered(Get(job, "required_skills", <<>>))
                      \cup lowered(Get(job, "preferred_skills", <<>>))
        held == lowered(Get(resume, "skills", <<>>))
    IN \A i \in 1..Len(calls) :
           ~IsFallback(calls[i].result)
               => /\ calls[i].result.matching_skills = held \cap wanted
                  /\ calls[i].result.missing_skills = wanted \ held
                  /\ calls[i].result.matching_skills \cap calls[i].result.missing_skills = {}
                  /\ calls[i].result.matching_skills \cup calls[i].result.missing_skills = wanted

\* a scored resume with a skill matched through lower-casing and a skill missing
C15_Witness ==
    \E i \in 1..Len(calls) :
        /\ ~IsFallback(calls[i].result)
        /\ calls[i].result.missing_skills # {}
        /\ \E s \in SeqToSet(Get(job, "required_skills", <<>>)) :
               /\ Lower(s) # s
               /\ Lower(s) \in calls[i].result.matching_skills

\* C16: in every interleaving of the scoring tasks, the keys of the mapping
\* of batch_score_resumes are file names of resumes without an error field,
\* and are all of them once the batch has returned; a completing task stores
\* the score of its own file's resume data under its own file name and
\* leaves every entry stored before as it was.
C16_EachFileGetsItsOwnScore ==
    [][ LET data(f) == ResumeDataOf(f)
            scorable == {f \in ProcessedFiles : "error" \notin DOMAIN data(f)}
            joined == ai_detection_results' # <<>> \/ output' # <<>>
        IN /\ DOMAIN ats_scores' \subseteq scorable
           /\ joined => DOMAIN ats_scores' = scorable
           /\ \A f \in DOMAIN ats_scores' \ DOMAIN ats_scores :
                  ats_scores'[f] = score_resume(job, data(f), score_replies'[f], now)
           /\ \A g \in DOMAIN ats_scores :
                  g \in DOMAIN ats_scores' /\ ats_scores'[g] = ats_scores[g] ]_vars

\* the batch has returned the scores of two files with different resumes
C16_Witness ==
    /\ output # <<>>
    /\ \E f, g \in DOMAIN ats_scores :
           /\ ResumeDataOf(f) # ResumeDataOf(g)
           /\ ats_scores[f].ats_score # ats_scores[g].ats_score

\* C17: _calculate_skill_match is 100 for an empty required set; otherwise
\* it is min(100, 100 * credits / |required|), a required skill earning 1 when
\* it is an element of the candidate set, else 1/2 when it is a substring of,
\* or contains, some candidate skill, else 0; it is 100 whenever every
\* required skill is an element of the candidate set.
C17_SkillMatchCredits ==
    (returned # <<>> /\ args.fn = "_calculate_skill_match")
        => LET required == args.required_skills
               candidate == args.candidate_skills
               full == {r \in required : r \in candidate}
               half == {r \in required \ full :
                           \E c \in candidate : Contains(c, r) \/ Contains(r, c)}
               credits == RAdd(RInt(Cardinality(full)), Rat(Cardinality(half), 2))
           IN /\ ~returned[1].raised
              /\ required = {} => returned[1].value = Hundred
              /\ required # {}
                     => returned[1].value =
                            RMin(Hundred, RDiv(RMul(Hundred, credits),
                                               RInt(Cardinality(required))))
              /\ required \subseteq candidate => returned[1].value = Hundred

\* a call with one full credit and one half credit that either of two
\* candidate skills gives: 100 * 1.5 / 2
C17_Witness ==
    /\ returned # <<>>
    /\ args.fn = "_calculate_skill_match"
    /\ args.required_skills = {PYTHON_LC, SQL_LC}
    /\ args.candidate_skills = {PYTHON_LC, POSTGRESQL_, MYSQL_LC}
    /\ returned[1].value = Rat(75, 1)

\* C18: on every result that is not the fallback, skill_match is 0.7 times
\* the match of the required skills plus 0.3 times the match of the preferred
\* skills, both against the same lower-cased candidate set; required
\* {python, sql}, preferred {docker} and candidate {python, postgresql}
\* give 52.5.
C18_SkillMatchWeighsRequiredOverPreferred ==
    LET candidate == LowerSet(Get(resume, "skills", <<>>))
        required_match ==
            _calculate_skill_match(LowerSet(Get(job, "required_skills", <<>>)), candidate)
        preferred_match ==
            _calculate_skill_match(LowerSet(Get(job, "preferred_skills", <<>>)), candidate)
    IN \A i \in 1..Len(calls) :
           ~IsFallback(calls[i].result)
               => /\ RMul(RInt(10), calls[i].result.skill_match)
                         = RAdd(RMul(RInt(7), required_match), RMul(RInt(3), preferred_match))
                  /\ (job = JobDataEngineer /\ resume = ResumeDates)
                         => calls[i].result.skill_match = Rat(105, 2)

\* the example of the claim has been scored
C18_Witness ==
    /\ job = JobDataEngineer
    /\ resume = ResumeDates
    /\ \E i \in 1..Len(calls) :
           /\ ~IsFallback(calls[i].result)
           /\ calls[i].result.skill_match = Rat(105, 2)

\* C19: for a text years_of_experience, _calculate_experience_match takes
\* required_years as the midpoint of a range, else the first number, and 2
\* only when the text holds no number; it returns 100 when the candidate's
\* total years reach required_years, 0 when they are at most 0, and
\* 100 * candidate_years / required_years otherwise.
C19_RequiredYearsDefaultOnlyWithoutNumber ==
    (/\ returned # <<>>
     /\ args.fn = "_calculate_experience_match"
     /\ ~returned[1].raised
     /\ IsStr(Get(args.job_requirements, "years_of_experience", PyStr(NOT_SPECIFIED))))
        => LET text == Get(args.job_requirements, "years_of_experience",
                           PyStr(NOT_SPECIFIED))
               required_years ==
                   IF FirstDigitFrom(text.v, 1) = 0 THEN RInt(2) ELSE ParsedYears(text)
               candidate_years ==
                   _calculate_total_experience_years(
                       Get(args.resume_data, "experience", EmptyList), now)
           IN returned[1].value =
                  IF RLe(required_years, candidate_years) THEN Hundred
                  ELSE IF RLe(candidate_years, Zero) THEN Zero
                  ELSE RDiv(RMul(Hundred, candidate_years), required_years)

\* C20: _calculate_total_experience_years never raises; an entry whose
\* duration is not text or matches neither pattern, whose start_date is empty
\* or holds no 4-digit year, or whose end_date is not a present one and holds
\* no 4-digit year, adds 0, and the total is the sum over the other entries.
C20_UnparseableEntriesAddZero ==
    (returned # <<>> /\ args.fn = "_calculate_total_experience_years")
        => LET Parseable(exp) ==
                   IF HasDuration(exp)
                   THEN /\ IsStr(exp["duration"])
                        /\ \/ FirstNumWordFrom(Lower(exp["duration"].v), YEAR, 1) # 0
                           \/ FirstNumWordFrom(Lower(exp["duration"].v), MONTH, 1) # 0
                   ELSE LET start_date == Get(exp, "start_date", <<>>)
                            end_date == Get(exp, "end_date", <<>>)
                        IN /\ start_date # <<>>
                           /\ HasYear4(start_date)
                           /\ \/ end_date = <<>>
                              \/ Contains(Lower(end_date), PRESENT)
                              \/ Contains(Lower(end_date), CURRENT)
                              \/ HasYear4(end_date)
               summed == PyList(SelectSeq(args.experience.v, Parseable))
           IN /\ ~returned[1].raised
              /\ returned[1].value = _calculate_total_experience_years(summed, now)

\* C21: the total _calculate_total_experience_years returns is at least 0,
\* no entry adds less than 0, and a date range that ends before it starts
\* adds nothing: the total is the total of the list without such entries.
C21_TotalYearsNeverNegative ==
    (/\ returned # <<>>
     /\ args.fn = "_calculate_total_experience_years"
     /\ ~returned[1].raised)
        => LET entries == args.experience.v
               Backwards(exp) ==
                   /\ ~HasDuration(exp)
                   /\ HasYear4(Get(exp, "start_date", <<>>))
                   /\ HasYear4(Get(exp, "end_date", <<>>))
                   /\ 12 * Year4(exp["end_date"]) + MonthOf(Lower(exp["end_date"]))
                          < 12 * Year4(exp["start_date"]) + MonthOf(Lower(exp["start_date"]))
               Forwards(exp) == ~Backwards(exp)
           IN /\ RLe(Zero, returned[1].value)
              /\ \A i \in 1..Len(entries) : RLe(Zero, EntryYears(entries[i], now))
              /\ returned[1].value =
                     _calculate_total_experience_years(PyList(SelectSeq(entries, Forwards)),
                                                       now)

\* a total made of a range that counts and a range that ends before it starts
C21_Witness ==
    /\ returned # <<>>
    /\ args.fn = "_calculate_total_experience_years"
    /\ args.experience = PyList(<< [duration |-> PyNone, start_date |-> JAN_2019,
                                    end_date |-> Y2022],
                                   [start_date |-> JAN_2022, end_date |-> JAN_2020] >>)
    /\ returned[1] = [raised |-> FALSE, value |-> Rat(41, 12)]

\* C22: an entry that takes the date branch and whose start_date holds a
\* 4-digit year adds (end_year - start_year) + (end_month - start_month)/12
\* when that is not negative; a month is the one named in the date text,
\* whatever its case, or 6; end_year and end_month are the current ones when
\* end_date is absent or holds "present" or "current".  Jan 2020 to Jan 2022
\* gives 2.
C22_DateRangeContribution ==
    (/\ returned # <<>>
     /\ args.fn = "_calculate_total_experience_years"
     /\ Len(args.experience.v) = 1
     /\ ~HasDuration(args.experience.v[1])
     /\ HasYear4(Get(args.experience.v[1], "start_date", <<>>)))
        => LET exp == args.experience.v[1]
               start_date == exp["start_date"]
               end_date == Get(exp, "end_date", <<>>)
               ongoing == \/ "end_date" \notin DOMAIN exp
                          \/ Contains(Lower(end_date), PRESENT)
                          \/ Contains(Lower(end_date), CURRENT)
               month(text) ==
                   IF \A m \in 1..12 : ~Contains(Lower(text), MonthNames[m]) THEN 6
                   ELSE MonthOf(Lower(text))
               end_year == IF ongoing THEN now[1] ELSE Year4(end_date)
               end_month == IF ongoing THEN now[2] ELSE month(end_date)
               length == RAdd(RInt(end_year - Year4(start_date)),
                              Rat(end_month - month(start_date), 12))
           IN /\ ~returned[1].raised
              /\ (ongoing \/ HasYear4(end_date))
                     => returned[1].value = (IF RLe(Zero, length) THEN length ELSE Zero)
              /\ (start_date = JAN_2020 /\ end_date = JAN_2022)
                     => returned[1].value = RInt(2)

\* Jan 2020 to present, evaluated in June 2024, has given 4 + 5/12
C22_Witness ==
    /\ returned # <<>>
    /\ args.fn = "_calculate_total_experience_years"
    /\ args.experience = PyList(<< [start_date |-> JAN_2020, end_date |-> PRESENT_] >>)
    /\ now = <<2024, 6>>
    /\ returned[1] = [raised |-> FALSE, value |-> Rat(53, 12)]

\* C23: an entry with a non-empty duration string adds the number of its
\* "N years" part (0 without one) plus the number of its "N months" part
\* over 12 (0 without one), its dates are not consulted, and it adds 0 when
\* it has neither part; "2 years 6 months" gives 2.5.
C23_DurationContribution ==
    (/\ returned # <<>>
     /\ args.fn = "_calculate_total_experience_years"
     /\ Len(args.experience.v) = 1
     /\ HasDuration(args.experience.v[1])
     /\ IsStr(args.experience.v[1]["duration"]))
        => LET exp == args.experience.v[1]
               text == Lower(exp["duration"].v)
               has_years == FirstNumWordFrom(text, YEAR, 1) # 0
               has_months == FirstNumWordFrom(text, MONTH, 1) # 0
               years == IF has_years THEN NumBeforeWord(text, YEAR) ELSE Zero
               months == IF has_months THEN NumBeforeWord(text, MONTH) ELSE Zero
               duration_only == PyList(<< [duration |-> exp["duration"]] >>)
           IN /\ ~returned[1].raised
              /\ returned[1].value = RAdd(years, RDiv(months, RInt(12)))
              /\ (~has_years /\ ~has_months) => returned[1].value = Zero
              /\ returned[1].value = _calculate_total_experience_years(duration_only, now)
              /\ exp["duration"].v = DUR_2Y6M => returned[1].value = Rat(5, 2)
              /\ exp["duration"].v = DUR_18M => returned[1].value = Rat(3, 2)
              /\ exp["duration"].v = DUR_1Y => returned[1].value = RInt(1)

\* "2 years 6 months" on an entry that also has dates has given 2.5
C23_Witness ==
    /\ returned # <<>>
    /\ args.fn = "_calculate_total_experience_years"
    /\ args.experience = PyList(<< [duration |-> PyStr(DUR_2Y6M), start_date |-> JAN_2019,
                                    end_date |-> Y2022] >>)
    /\ returned[1] = [raised |-> FALSE, value |-> Rat(5, 2)]

\* C24: _calculate_education_match returns 100 when the candidate's level
\* reaches the required level, 0 when the candidate's level is 0, and
\* 100 * candidate_level / required_level otherwise; the required level is 3
\* when the requirement names no level keyword, and the candidate's level is
\* the highest over all degree strings, 0 without education or keyword.  No
\* requirement with a Master's degree gives 100; "PhD required" with no
\* education gives 0.
C24_EducationMatchByLevels ==
    (returned # <<>> /\ args.fn = "_calculate_education_match")
        => LET requirement == Get(args.job_requirements, "education_requirements", <<>>)
               education == Get(args.resume_data, "education", <<>>)
               named == LevelOf(Lower(requirement))
               required_level == IF named = 0 THEN 3 ELSE named
               levels == {LevelOf(Lower(Get(education[i], "degree", <<>>))) :
                              i \in 1..Len(education)}
               candidate_level ==
                   IF levels = {} THEN 0 ELSE CHOOSE l \in levels : \A m \in levels : m <= l
           IN /\ candidate_level >= required_level => returned[1].value = Hundred
              /\ candidate_level = 0 => returned[1].value = Zero
              /\ (0 < candidate_level /\ candidate_level < required_level)
                     => returned[1].value = Rat(100 * candidate_level, required_level)
              /\ (requirement = EMPTY_ /\ education = << [degree |-> MSC] >>)
                     => returned[1].value = Hundred
              /\ (requirement = PHD_REQ /\ education = <<>>)
                     => returned[1].value = Zero

\* a diploma listed before a Bachelor against "PhD required": 100 * 3 / 5
C24_Witness ==
    /\ returned # <<>>
    /\ args.fn = "_calculate_education_match"
    /\ args.job_requirements = [education_requirements |-> PHD_REQ]
    /\ args.resume_data = [education |-> << [degree |-> DIPLOMA], [degree |-> BSC] >>]
    /\ returned[1].value = RInt(60)

\* C25: a text gets the level of the ordinal table: the level of the one tier
\* whose keyword it names (high school 1; associate, diploma 2; bachelor, BS,
\* BA, undergraduate 3; master, MBA, graduate 4; PhD, doctorate 5), the
\* highest level when it names keywords of several tiers.  A keyword is named
\* when it stands in the text as a word, not inside a longer word.
C25_LevelFollowsTheOrdinalTable ==
    (/\ returned # <<>>
     /\ args.fn = "_calculate_education_match"
     /\ "education" \in DOMAIN args.resume_data
     /\ Len(args.resume_data["education"]) = 1)
        => LET letters == SeqToSet(LowerChars)
               Names(text, keyword) ==
                   \E i \in 1..Len(text) :
                       /\ StartsWithAt(text, i, keyword)
                       /\ i = 1 \/ text[i - 1] \notin letters
                       /\ \/ i + Len(keyword) > Len(text)
                          \/ text[i + Len(keyword)] \notin letters
               Level(text) ==
                   LET tiers == {e[2] : e \in {x \in education_levels :
                                                   Names(Lower(text), x[1])}}
                   IN IF tiers = {} THEN 0 ELSE CHOOSE l \in tiers : \A m \in tiers : m <= l
               named == Level(Get(args.job_requirements, "education_requirements", <<>>))
               required_level == IF named = 0 THEN 3 ELSE named
               candidate_level ==
                   Level(Get(args.resume_data["education"][1], "degree", <<>>))
           IN returned[1].value =
                  IF candidate_level >= required_level THEN Hundred
                  ELSE IF candidate_level = 0 THEN Zero
                  ELSE Rat(100 * candidate_level, required_level)

\* C26: _calculate_keyword_density returns 100 when the keyword universe is
\* empty, else 100 * (keywords found as a substring of the corpus) / (size of
\* the universe); the universe is the lower-cased union of required_skills,
\* preferred_skills and critical_keywords without the stop words and without
\* keywords of length 2 or less; the corpus is the lower-cased skills, summary
\* and each experience entry's title, company and description.
C26_KeywordDensityOverFilteredUniverse ==
    (/\ returned # <<>>
     /\ args.fn = "_calculate_keyword_density"
     /\ ~returned[1].raised)
        => LET job_requirements == args.job_requirements
               resume_data == args.resume_data
               listed == SeqToSet(Get(job_requirements, "required_skills", <<>>))
                             \cup SeqToSet(Get(job_requirements, "preferred_skills", <<>>))
                             \cup SeqToSet(Get(job_requirements, "critical_keywords", <<>>))
               universe == {k \in {Lower(w) : w \in listed} :
                                k \notin common_words /\ Len(k) >= 3}
               experience == Get(resume_data, "experience", EmptyList).v
               fields == {Get(resume_data, "summary", PyStr(<<>>)).v}
                             \cup SeqToSet(Get(resume_data, "skills", <<>>))
                             \cup UNION {{Get(experience[i], "title", <<>>),
                                          Get(experience[i], "company", <<>>),
                                          Get(experience[i], "description", <<>>)} :
                                             i \in 1..Len(experience)}
               found == {k \in universe : \E f \in fields : Contains(Lower(f), k)}
           IN /\ Cardinality(common_words) = 14
              /\ universe = {} => returned[1].value = Hundred
              /\ universe # {}
                     => returned[1].value =
                            Rat(100 * Cardinality(found), Cardinality(universe))

\* of the keywords Go, SQL, AND, Data, Kafka three count and two are found
C26_Witness ==
    /\ returned # <<>>
    /\ args.fn = "_calculate_keyword_density"
    /\ args.job_requirements = JobStopWords
    /\ args.resume_data = ResumeShort
    /\ returned[1] = [raised |-> FALSE, value |-> Rat(200, 3)]

\* C27: _calculate_title_match returns 50 when job_title or the experience
\* list is empty; otherwise the highest, over the first three entries, of
\* 100 * |intersection| / |union| of the lower-cased word sets of the job
\* title and the entry's title, entries with an empty union skipped; entries
\* from the fourth on never change the result.
C27_TitleMatchOverFirstThree ==
    (returned # <<>> /\ args.fn = "_calculate_title_match")
        => LET entries == args.experience.v
               job_words == SplitWords(Lower(args.job_title))
               words(i) == SplitWords(Lower(Get(entries[i], "title", <<>>)))
               looked_at == {i \in 1..Len(entries) :
                                 i <= 3 /\ job_words \cup words(i) # {}}
               similarities ==
                   {Rat(100 * Cardinality(job_words \cap words(i)),
                        Cardinality(job_words \cup words(i))) : i \in looked_at}
                       \cup {Zero}
               best == CHOOSE s \in similarities : \A t \in similarities : RLe(t, s)
               first_three == PyList(SubSeq(entries, 1, IF Len(entries) < 3
                                                        THEN Len(entries) ELSE 3))
           IN /\ (args.job_title = <<>> \/ entries = <<>>) => returned[1].value = RInt(50)
              /\ (args.job_title # <<>> /\ entries # <<>>) => returned[1].value = best
              /\ returned[1].value = _calculate_title_match(args.job_title, first_three)

\* the fourth entry has the job's title, the best of the first three shares
\* two words of three with it
C27_Witness ==
    /\ returned # <<>>
    /\ args.fn = "_calculate_title_match"
    /\ args.job_title = DATA_ENGINEER
    /\ args.experience = PyList(<< [title |-> ANALYST], [company |-> ACME],
                                   [title |-> SENIOR_DATA_ENGINEER],
                                   [title |-> DATA_ENGINEER] >>)
    /\ returned[1].value = Rat(200, 3)

\* C28: every skill _identify_key_differences reports as possessed by all
\* top candidates is in the matching_skills of each of the top
\* N = min(5, pool size) candidates, and nothing is reported when no skill is
\* in all of them.
C28_CommonSkillsAreSharedByAllTop ==
    (/\ ranking # <<>>
     /\ comparison # <<>>
     /\ ~comparison[1].raised
     /\ Len(ranking[1].ranked_candidates) >= 2)
        => LET pool == ranking[1].ranked_candidates
               N == IF Len(pool) < 5 THEN Len(pool) ELSE 5
               shared == {s \in Get(pool[1], "matching_skills", {}) :
                              \A i \in 1..N : s \in Get(pool[i], "matching_skills", {})}
               differences == comparison[1].data.key_differences
           IN \A d \in 1..Len(differences) :
                  differences[d].kind = "All top candidates possess"
                      => /\ shared # {}
                         /\ differences[d].skills \subseteq shared

\* C29: for a candidate record with workExperience and without experience,
\* experience_match, title_match and keyword_density of one result are all
\* computed from the workExperience list.
C29_OneExperienceListForAllSubScores ==
    \A i \in 1..Len(calls) :
        (/\ "workExperience" \in DOMAIN resume
         /\ "experience" \notin DOMAIN resume
         /\ ~IsFallback(calls[i].result))
            => LET listed == [experience |-> resume["workExperience"]] @@ resume
               IN /\ calls[i].result.title_match =
                         _calculate_title_match(Get(job, "job_title", <<>>),
                                                resume["workExperience"])
                  /\ calls[i].result.experience_match =
                         _calculate_experience_match(job, listed, calls[i].now)
                  /\ calls[i].result.keyword_density =
                         _calculate_keyword_density(job, listed)


\* C30: the ranked_candidates list that rank_candidates returns holds each
\* record of the input list exactly once, with the fields it came in with, on
\* the normal path and on the error path; on the normal path every returned
\* record carries a composite_score.
C30_RankedIsAPermutationOfTheInput ==
    [][ranking' # ranking
           => LET result == ranking'[1]
                  ranked_candidates == result.ranked_candidates
                  N == 1..Len(candidates)
              IN /\ Len(ranked_candidates) = Len(candidates)
                 /\ \A i \in N :
                        Cardinality({ j \in 1..Len(ranked_candidates) :
                                        \A k \in DOMAIN candidates[i] :
                                            /\ k \in DOMAIN ranked_candidates[j]
                                            /\ ranked_candidates[j][k] = candidates[i][k] }) = 1
                 /\ \A j \in 1..Len(ranked_candidates) :
                        DOMAIN ranked_candidates[j] \subseteq
                            {"composite_score"} \cup UNION {DOMAIN candidates[i] : i \in N}
                 /\ "error" \notin DOMAIN result
                        => \A j \in 1..Len(ranked_candidates) :
                               "composite_score" \in DOMAIN ranked_candidates[j]]_vars

\* two candidates ranked on the normal path, the second of the input first
C30_Witness ==
    /\ ranking # <<>>
    /\ "error" \notin DOMAIN ranking[1]
    /\ Len(ranking[1].ranked_candidates) = 2
    /\ ranking[1].ranked_candidates[1]["file_name"] = 2

\* the error return after the loop: the input list in its own order
C30_WitnessErrorPath ==
    /\ ranking # <<>>
    /\ "error" \in DOMAIN ranking[1]
    /\ Len(ranking[1].ranked_candidates) = 2
    /\ ranking[1].ranked_candidates[1]["file_name"] = 1

====
